---- MODULE Spec2Model ----
(***************************************************************************)
(* A model of the pure data-transformation core of the NACS dashboard:     *)
(* the bracket reconstruction (parseBracket), the three match-stat         *)
(* normalizers (FACEIT, PandaScore, Grid), the cross-map aggregator and    *)
(* the grouping of tournaments into series events (groupBySerie).          *)
(***************************************************************************)
EXTENDS Integers, Sequences, FiniteSets, TLC

VARIABLES
    bracketMatches,  \* the argument of parseBracket: a list of PSBracketMatch
    depthCache,      \* parseBracket's depthCache (match id -> depth)
    isLBMatch,       \* parseBracket's isLBMatch set
    bracket,         \* what parseBracket returned: Pending, Null or a ParsedBracket
    source,          \* which upstream the stats payload comes from
    payload,         \* the raw payload handed to that source's normalizer
    stats,           \* what the normalizer returned: Pending, Null, Thrown or NormalizedMatchStats
    overall,         \* what aggregatePlayerStats returned for one team key, or Pending
    tournaments,     \* the argument of groupBySerie: a list of AnnotatedTournament
    events,          \* what groupBySerie returned, or Pending
    depthCalls,      \* getDepth call by call: the ids still to visit and the call stack
    timing,          \* begin_at and end_at of a series or tournament, and Date.now()
    derived          \* the status each of the two places derived from timing, or Pending

bracketVars == <<bracketMatches, depthCache, isLBMatch, bracket>>

statsVars == <<source, payload, stats, overall>>

serieVars == <<tournaments, events>>

statusVars == <<timing, derived>>

vars == <<bracketVars, statsVars, serieVars, depthCalls, statusVars>>

\* JavaScript's null and undefined, and "not returned yet"; records, so that
\* they compare with the records they stand in for.
Null == [tag |-> "null"]
Undefined == [tag |-> "undefined"]
Pending == [tag |-> "pending"]

\* A call that ended in a TypeError instead of returning.
Thrown == [tag |-> "TypeError"]
RangeError == [tag |-> "RangeError"]

\* The variables of the part of the program a specification leaves alone.
Idle == [tag |-> "idle"]

\* Largest number of matches in the exhaustively enumerated bracket lists.
MaxMatches == 3

\* Largest number of matches in the enumerated lists that may also refer to
\* an id missing from the list (a partial bracket fetch).
MaxPartial == 2

(***************************************************************************)
(* Generic helpers                                                         *)
(***************************************************************************)
SetMax(S) == CHOOSE x \in S : \A y \in S : y <= x

SeqRange(s) == {s[i] : i \in DOMAIN s}

RECURSIVE SeqConcat(_)
SeqConcat(ss) == IF Len(ss) = 0 THEN <<>> ELSE Head(ss) \o SeqConcat(Tail(ss))

Reverse(s) == [i \in 1..Len(s) |-> s[Len(s) + 1 - i]]

(***************************************************************************)
(* Bracket inputs: PSBracketMatch records reduced to the fields            *)
(* parseBracket reads, id and previous_matches.                            *)
(***************************************************************************)
PrevRef(t, id) == [type |-> t, match_id |-> id]

BracketMatch(id, prev) == [id |-> id, previous_matches |-> prev]

\* References match i may carry: either type, to any other id of `targets`.
RefsOf(targets, i) == {PrevRef(t, j) : t \in {"winner", "loser"}, j \in targets \ {i}}

RefRank(r) == 2 * r.match_id + (IF r.type = "loser" THEN 1 ELSE 0)

\* previous_matches lists of at most two references (a match has two sides).
PrevLists(targets, i) ==
    {<<>>} \cup {<<r>> : r \in RefsOf(targets, i)}
           \cup {<<p[1], p[2]>> : p \in {q \in RefsOf(targets, i) \X RefsOf(targets, i) :
                                            RefRank(q[1]) < RefRank(q[2])}}

RECURSIVE MatchLists(_, _)
\* The lists of matches 1..k whose references go to ids of `targets`.
MatchLists(targets, k) ==
    IF k = 0 THEN {<<>>}
    ELSE {Append(ms, BracketMatch(k, prev)) :
            ms \in MatchLists(targets, k - 1), prev \in PrevLists(targets, k)}

PredIds(ms, id) ==
    UNION {{m.previous_matches[k].match_id : k \in DOMAIN m.previous_matches} :
           m \in {x \in SeqRange(ms) : x.id = id}}

RECURSIVE Ancestors(_, _, _)
Ancestors(ms, S, k) ==
    IF k = 0 THEN S
    ELSE Ancestors(ms, S \cup UNION {PredIds(ms, j) : j \in S}, k - 1)

\* The data model's invariant: previous_matches is a directed acyclic graph.
Acyclic(ms) ==
    \A i \in DOMAIN ms : ms[i].id \notin Ancestors(ms, PredIds(ms, ms[i].id), Len(ms))

\* Scenario A: four quarterfinals, two semifinals, one final, all winner-fed.
SingleElimination ==
    << BracketMatch(1, <<>>), BracketMatch(2, <<>>), BracketMatch(3, <<>>), BracketMatch(4, <<>>),
       BracketMatch(5, <<PrevRef("winner", 1), PrevRef("winner", 2)>>),
       BracketMatch(6, <<PrevRef("winner", 3), PrevRef("winner", 4)>>),
       BracketMatch(7, <<PrevRef("winner", 5), PrevRef("winner", 6)>>) >>

\* Scenario B: a four-team double elimination; match 6 joins the upper final
\* (3) and the lower final (5).
DoubleElimination ==
    << BracketMatch(1, <<>>), BracketMatch(2, <<>>),
       BracketMatch(3, <<PrevRef("winner", 1), PrevRef("winner", 2)>>),
       BracketMatch(4, <<PrevRef("loser", 1), PrevRef("loser", 2)>>),
       BracketMatch(5, <<PrevRef("winner", 4), PrevRef("loser", 3)>>),
       BracketMatch(6, <<PrevRef("winner", 3), PrevRef("winner", 5)>>) >>

\* A partial fetch listed latest round first: a lower-bracket chain whose
\* loser feed comes from a match (9) that is not in the list.
PartialLowerChain ==
    << BracketMatch(1, <<PrevRef("winner", 2)>>),
       BracketMatch(2, <<PrevRef("winner", 3)>>),
       BracketMatch(3, <<PrevRef("loser", 9)>>) >>

\* Two matches at the last depth that both join the upper final (3) and the
\* lower final (5) of the double elimination.
TwinFinals ==
    DoubleElimination \o << BracketMatch(7, <<PrevRef("winner", 3), PrevRef("winner", 5)>>) >>

\* Four quarterfinals, two semifinals, a final and a match fed by the final.
QuarterfinalBracket ==
    SingleElimination \o << BracketMatch(8, <<PrevRef("winner", 7)>>) >>

\* The same upper bracket beside a lower bracket of two rounds; match 8 joins
\* the upper final (7) and the lower final (10).
QuarterfinalDouble ==
    SingleElimination
    \o << BracketMatch(8, <<PrevRef("winner", 7), PrevRef("winner", 10)>>),
          BracketMatch(9, <<PrevRef("loser", 1), PrevRef("loser", 2)>>),
          BracketMatch(10, <<PrevRef("winner", 9), PrevRef("loser", 7)>>) >>

\* Five matches in a row, each fed by the winner of the one before.
LongChain ==
    << BracketMatch(1, <<>>), BracketMatch(2, <<PrevRef("winner", 1)>>),
       BracketMatch(3, <<PrevRef("winner", 2)>>), BracketMatch(4, <<PrevRef("winner", 3)>>),
       BracketMatch(5, <<PrevRef("winner", 4)>>) >>

\* A lower bracket of three rounds under one upper match.
LowerLadder ==
    << BracketMatch(1, <<>>), BracketMatch(2, <<PrevRef("loser", 1)>>),
       BracketMatch(3, <<PrevRef("winner", 2)>>), BracketMatch(4, <<PrevRef("winner", 3)>>),
       BracketMatch(5, <<PrevRef("winner", 1), PrevRef("winner", 4)>>) >>

\* Brackets with three or more rounds on one side.
LabelInputs ==
    {QuarterfinalBracket, Reverse(QuarterfinalBracket), QuarterfinalDouble, Reverse(QuarterfinalDouble),
     LongChain, Reverse(LongChain), LowerLadder, Reverse(LowerLadder)}

ScenarioInputs ==
    {SingleElimination, Reverse(SingleElimination),
     DoubleElimination, Reverse(DoubleElimination),
     PartialLowerChain, Reverse(PartialLowerChain),
     TwinFinals, Reverse(TwinFinals)}

RECURSIVE AcyclicLists(_, _)
\* The acyclic lists among MatchLists(targets, k).  A cycle among the matches
\* 1..k stays one whatever matches follow, so a list is dropped as soon as
\* the match that closes a cycle is added.
AcyclicLists(targets, k) ==
    IF k = 0 THEN {<<>>}
    ELSE {ms \in {Append(prefix, BracketMatch(k, prev)) :
                    prefix \in AcyclicLists(targets, k - 1), prev \in PrevLists(targets, k)} :
            k \notin Ancestors(ms, PredIds(ms, k), k)}

BracketInputs ==
    {<<>>}
    \cup UNION {AcyclicLists(1..n, n) : n \in 1..MaxMatches}
    \cup UNION {AcyclicLists(1..(n + 1), n) : n \in 1..MaxPartial}
    \cup ScenarioInputs \cup LabelInputs

(***************************************************************************)
(* parseBracket                                                            *)
(***************************************************************************)
\* matchMap.get(matchId): the last match of the list with that id.
matchMapGet(ms, matchId) ==
    LET at == {i \in DOMAIN ms : ms[i].id = matchId}
    IN  IF at = {} THEN Undefined ELSE ms[SetMax(at)]

rootDepth == 0

\* A depth that forgets the step from the predecessors to the match.
depthFromPrevFlat(maxPrevDepth) == maxPrevDepth

depthFromPrev(maxPrevDepth) == maxPrevDepth + 1

\* A maximum that looks at the first predecessor only.
firstPrevDepth(after, prevIds) == after[prevIds[1]]

\* Math.max(...m.previous_matches.map((p) => getDepth(p.match_id)))
maxPrevDepthOf(after, prevIds) == SetMax({after[id] : id \in SeqRange(prevIds)})

RECURSIVE getDepth(_, _, _)
RECURSIVE getDepthAll(_, _, _)
\* The depthCache after the call getDepth(matchId) made with cache `cache`.
getDepth(ms, cache, matchId) ==
    IF matchId \in DOMAIN cache THEN cache
    ELSE LET m == matchMapGet(ms, matchId)
         IN  IF m = Undefined \/ Len(m.previous_matches) = 0
             THEN cache @@ (matchId :> rootDepth)
             ELSE LET prevIds == [k \in DOMAIN m.previous_matches |-> m.previous_matches[k].match_id]
                      after == getDepthAll(ms, cache, prevIds)
                      maxPrevDepth == maxPrevDepthOf(after, prevIds)
                  IN  after @@ (matchId :> depthFromPrev(maxPrevDepth))

\* getDepth called on each id of `ids` in turn.
getDepthAll(ms, cache, ids) ==
    IF Len(ids) = 0 THEN cache
    ELSE getDepthAll(ms, getDepth(ms, cache, Head(ids)), Tail(ids))

\* depthCache.get(id) || 0
DepthOf(cache, id) == IF id \in DOMAIN cache THEN cache[id] ELSE 0

hasLoserIncoming(ms) ==
    {m.id : m \in {x \in SeqRange(ms) :
                     \E k \in DOMAIN x.previous_matches : x.previous_matches[k].type = "loser"}}

\* Classification in input order, without the sort.
sortedByDepthUnsorted(ms, cache) == ms

\* [...bracketMatches].sort by depth: the sort is stable.
sortedByDepth(ms, cache) ==
    LET maxD == SetMax({0} \cup {DepthOf(cache, ms[i].id) : i \in DOMAIN ms})
    IN  SeqConcat([d1 \in 1..(maxD + 1) |->
                     SelectSeq(ms, LAMBDA m : DepthOf(cache, m.id) = d1 - 1)])

\* Does a winner-type reference of m come from a match already in isLB?
fedByLowerWinner(isLB, m) ==
    \E k \in DOMAIN m.previous_matches :
        /\ m.previous_matches[k].type = "winner"
        /\ m.previous_matches[k].match_id \in isLB

\* A classification that stops at the matches with a loser reference.
classifyLBSeedOnly(ms, isLB, matchId) ==
    IF matchId \in hasLoserIncoming(ms) /\ matchMapGet(ms, matchId) # Undefined
    THEN isLB \cup {matchId} ELSE isLB

\* isLBMatch after the call classifyLB(matchId).
classifyLB(ms, isLB, matchId) ==
    IF matchId \in isLB THEN isLB
    ELSE LET m == matchMapGet(ms, matchId)
         IN  IF m = Undefined THEN isLB
             ELSE IF matchId \in hasLoserIncoming(ms) THEN isLB \cup {matchId}
             ELSE IF fedByLowerWinner(isLB, m) THEN isLB \cup {matchId}
             ELSE isLB

RECURSIVE classifyAll(_, _, _)
classifyAll(ms, isLB, order) ==
    IF Len(order) = 0 THEN isLB
    ELSE classifyAll(ms, classifyLB(ms, isLB, Head(order).id), Tail(order))

\* Both loops over sortedByDepth.
classify(ms, cache) ==
    LET order == sortedByDepth(ms, cache)
        seeded == {m.id : m \in {x \in SeqRange(order) : x.id \in hasLoserIncoming(ms)}}
    IN  classifyAll(ms, seeded, order)

maxDepthOf(cache) == SetMax({cache[id] : id \in DOMAIN cache})

\* The test of the first grand-final loop.
isConvergence(m, cache, isLB) ==
    /\ DepthOf(cache, m.id) = maxDepthOf(cache)
    /\ Len(m.previous_matches) >= 2
    /\ \E k \in DOMAIN m.previous_matches : m.previous_matches[k].match_id \notin isLB
    /\ \E k \in DOMAIN m.previous_matches : m.previous_matches[k].match_id \in isLB

\* A fallback that takes the first match at the maximum depth however many
\* share it.
firstMaxDepthMatch(ms, cache) ==
    SelectSeq(ms, LAMBDA m : DepthOf(cache, m.id) = maxDepthOf(cache))[1]

\* The fallback: the only match at the maximum depth, if there is exactly one.
soleMaxDepthMatch(ms, cache) ==
    LET maxDepthMatches == SelectSeq(ms, LAMBDA m : DepthOf(cache, m.id) = maxDepthOf(cache))
    IN  IF Len(maxDepthMatches) = 1 THEN maxDepthMatches[1] ELSE Null

\* A search that keeps the last convergence instead of stopping at the first.
findGrandFinalLast(ms, cache, isLB) ==
    LET hits == SelectSeq(ms, LAMBDA m : isConvergence(m, cache, isLB))
    IN  IF Len(hits) > 0 THEN hits[Len(hits)] ELSE soleMaxDepthMatch(ms, cache)

findGrandFinal(ms, cache, isLB) ==
    LET hits == SelectSeq(ms, LAMBDA m : isConvergence(m, cache, isLB))
    IN  IF Len(hits) > 0 THEN hits[1] ELSE soleMaxDepthMatch(ms, cache)

\* A partition that forgets to skip the grand final.
ubMatchesWithFinal(ms, isLB, gf) == SelectSeq(ms, LAMBDA m : m.id \notin isLB)

ubMatches(ms, isLB, gf) ==
    SelectSeq(ms, LAMBDA m : ~(gf # Null /\ m.id = gf.id) /\ m.id \notin isLB)

lbMatches(ms, isLB, gf) ==
    SelectSeq(ms, LAMBDA m : ~(gf # Null /\ m.id = gf.id) /\ m.id \in isLB)

\* A label that counts the rounds from 0.
lowerLabelFromZero(idx, totalRounds) ==
    IF idx = totalRounds - 1 THEN <<"LB ", "Final">> ELSE <<"LB ", "Round ", idx>>

\* A quarterfinal label whatever the size of the round.
upperLabelAnySize(idx, totalRounds, roundSize) ==
    IF totalRounds <= 1 THEN <<"Final">>
    ELSE IF idx = totalRounds - 1 THEN <<"UB ", "Final">>
    ELSE IF idx = totalRounds - 2 THEN <<"UB ", "Semifinal">>
    ELSE IF idx = totalRounds - 3 THEN <<"UB ", "Quarterfinal">>
    ELSE <<"UB ", "Round ", idx + 1>>

\* Labels are token lists: "UB Final" is <<"UB ", "Final">>.
lowerLabel(idx, totalRounds) ==
    IF idx = totalRounds - 1 THEN <<"LB ", "Final">> ELSE <<"LB ", "Round ", idx + 1>>

upperLabel(idx, totalRounds, roundSize) ==
    IF totalRounds <= 1 THEN <<"Final">>
    ELSE IF idx = totalRounds - 1 THEN <<"UB ", "Final">>
    ELSE IF idx = totalRounds - 2 THEN <<"UB ", "Semifinal">>
    ELSE IF idx = totalRounds - 3 /\ roundSize = 4 THEN <<"UB ", "Quarterfinal">>
    ELSE <<"UB ", "Round ", idx + 1>>

RECURSIVE DescendingDepths(_)
\* A sort with the comparison turned round.
DescendingDepths(S) ==
    IF S = {} THEN <<>>
    ELSE LET hi == CHOOSE x \in S : \A y \in S : y <= x
         IN  <<hi>> \o DescendingDepths(S \ {hi})

RECURSIVE SortedDepths(_)
\* [...roundMap.keys()].sort((a, b) => a - b)
SortedDepths(S) ==
    IF S = {} THEN <<>>
    ELSE LET lo == CHOOSE x \in S : \A y \in S : x <= y
         IN  <<lo>> \o SortedDepths(S \ {lo})

buildRounds(matches, cache, isLower) ==
    LET depths == SortedDepths({DepthOf(cache, matches[i].id) : i \in DOMAIN matches})
        totalRounds == Len(depths)
    IN  [i \in 1..totalRounds |->
            LET roundMatches == SelectSeq(matches, LAMBDA m : DepthOf(cache, m.id) = depths[i])
            IN  [label |-> IF isLower THEN lowerLabel(i - 1, totalRounds)
                           ELSE upperLabel(i - 1, totalRounds, Len(roundMatches)),
                 matches |-> roundMatches]]

\* label.replace('UB ', ''): drops the first "UB " of the label.
stripUB(label) ==
    IF Len(label) > 0 /\ Head(label) = "UB " THEN Tail(label) ELSE label

stripIfSingleSided(upper, lower) ==
    IF Len(lower) = 0
    THEN [i \in DOMAIN upper |-> [upper[i] EXCEPT !.label = stripUB(@)]]
    ELSE upper

computeDepths(ms) == getDepthAll(ms, <<>>, [i \in DOMAIN ms |-> ms[i].id])

parsedBracket(ms, cache, isLB) ==
    LET gf == findGrandFinal(ms, cache, isLB)
        upper == buildRounds(ubMatches(ms, isLB, gf), cache, FALSE)
        lower == buildRounds(lbMatches(ms, isLB, gf), cache, TRUE)
    IN  [upperBracket |-> stripIfSingleSided(upper, lower),
         lowerBracket |-> lower,
         grandFinal |-> gf]

\* The value parseBracket returns for a non-empty list.
parseBracket(ms) ==
    LET cache == computeDepths(ms)
    IN  parsedBracket(ms, cache, classify(ms, cache))

\* An emptiness test that also turns a one-match list away.
isEmptyInputOffByOne(ms) == Len(ms) <= 1

isEmptyInput(ms) == Len(ms) = 0

(***************************************************************************)
(* The state machine                                                       *)
(***************************************************************************)
InitBracket ==
    /\ bracketMatches \in BracketInputs
    /\ depthCache = <<>>
    /\ isLBMatch = {}
    /\ bracket = Pending
    /\ source = Idle /\ payload = Idle /\ stats = Idle /\ overall = Idle
    /\ tournaments = Idle /\ events = Idle
    /\ depthCalls = Idle /\ timing = Idle /\ derived = Idle

\* One call parseBracket(bracketMatches).
ParseBracket ==
    /\ bracket = Pending
    /\ IF isEmptyInput(bracketMatches)
       THEN /\ bracket' = Null
            /\ UNCHANGED <<depthCache, isLBMatch>>
       ELSE LET cache == computeDepths(bracketMatches)
                isLB == classify(bracketMatches, cache)
            IN  /\ depthCache' = cache
                /\ isLBMatch' = isLB
                /\ bracket' = parsedBracket(bracketMatches, cache, isLB)
    /\ UNCHANGED <<bracketMatches, statsVars, serieVars, depthCalls, statusVars>>

NextBracket == ParseBracket

SpecBracket == InitBracket /\ [][NextBracket]_vars

(***************************************************************************)
(* JavaScript numbers and strings                                          *)
(*                                                                         *)
(* A number is an exact fraction [n, d] in lowest terms with d > 0; NaN is *)
(* a value of its own.  A string is [str |-> <<characters>>].              *)
(***************************************************************************)
NaN == [tag |-> "NaN"]

RECURSIVE Gcd(_, _)
Gcd(a, b) == IF b = 0 THEN a ELSE Gcd(b, a % b)

Abs(x) == IF x < 0 THEN 0 - x ELSE x

Frac(n, d) ==
    IF d = 0 THEN NaN
    ELSE LET g == Gcd(Abs(n), Abs(d))
             sgn == IF d < 0 THEN 0 - 1 ELSE 1
         IN  [n |-> (sgn * n) \div g, d |-> (sgn * d) \div g]

Num(k) == [n |-> k, d |-> 1]

IsNumber(v) == DOMAIN v = {"n", "d"}

IsString(v) == DOMAIN v = {"str"}

Str(chars) == [str |-> chars]

Plus(a, b) == IF IsNumber(a) /\ IsNumber(b) THEN Frac(a.n * b.d + b.n * a.d, a.d * b.d) ELSE NaN

Minus(a, b) == IF IsNumber(a) /\ IsNumber(b) THEN Frac(a.n * b.d - b.n * a.d, a.d * b.d) ELSE NaN

Times(a, b) == IF IsNumber(a) /\ IsNumber(b) THEN Frac(a.n * b.n, a.d * b.d) ELSE NaN

\* a / b; a division by zero is not a fraction (Infinity or NaN in JavaScript).
Over(a, b) == IF IsNumber(a) /\ IsNumber(b) THEN Frac(a.n * b.d, a.d * b.n) ELSE NaN

\* a > b; a comparison with NaN is false.
Gt(a, b) == IsNumber(a) /\ IsNumber(b) /\ a.n * b.d > b.n * a.d

Digits == <<"0", "1", "2", "3", "4", "5", "6", "7", "8", "9">>

IsDigit(c) == \E i \in DOMAIN Digits : Digits[i] = c

DigitValue(c) == (CHOOSE i \in DOMAIN Digits : Digits[i] = c) - 1

\* String(n) and `${n}` for 0 <= n <= 9.
DigitString(k) == <<Digits[k + 1]>>

RECURSIVE Pow10(_)
Pow10(k) == IF k = 0 THEN 1 ELSE 10 * Pow10(k - 1)

RECURSIVE DigitPrefix(_)
\* The longest prefix of digits.
DigitPrefix(chars) ==
    IF Len(chars) > 0 /\ IsDigit(Head(chars)) THEN <<Head(chars)>> \o DigitPrefix(Tail(chars)) ELSE <<>>

RECURSIVE DigitsValue(_)
DigitsValue(ds) ==
    IF Len(ds) = 0 THEN 0 ELSE 10 * DigitsValue(SubSeq(ds, 1, Len(ds) - 1)) + DigitValue(ds[Len(ds)])

RECURSIVE SkipSpaces(_)
SkipSpaces(chars) ==
    IF Len(chars) > 0 /\ Head(chars) = " " THEN SkipSpaces(Tail(chars)) ELSE chars

\* parseFloat: leading blanks, an optional sign, digits, an optional fraction;
\* what follows the longest such prefix is ignored; NaN without a digit.
parseFloat(v) ==
    LET trimmed == SkipSpaces(v.str)
        negative == Len(trimmed) > 0 /\ Head(trimmed) = "-"
        signed == Len(trimmed) > 0 /\ Head(trimmed) \in {"-", "+"}
        body == IF signed THEN Tail(trimmed) ELSE trimmed
        whole == DigitPrefix(body)
        rest == SubSeq(body, Len(whole) + 1, Len(body))
        frac == IF Len(rest) > 0 /\ Head(rest) = "." THEN DigitPrefix(Tail(rest)) ELSE <<>>
        magnitude == Frac(DigitsValue(whole) * Pow10(Len(frac)) + DigitsValue(frac), Pow10(Len(frac)))
    IN  IF Len(whole) + Len(frac) = 0 THEN NaN
        ELSE IF negative THEN Minus(Num(0), magnitude) ELSE magnitude

\* obj[key] of a raw JSON object: undefined when the key is missing.
Get(obj, key) == IF key \in DOMAIN obj THEN obj[key] ELSE Undefined

(***************************************************************************)
(* NormalizedPlayerStat and the zero-safe ratios                           *)
(***************************************************************************)
\* kills - deaths
kdDiffOf(kills, deaths) == Minus(kills, deaths)

\* A ratio that divides whatever the deaths.
kdRatioUnguarded(kills, deaths) == Over(kills, deaths)

\* deaths > 0 ? kills / deaths : kills
kdRatioOf(kills, deaths) == IF Gt(deaths, Num(0)) THEN Over(kills, deaths) ELSE kills

\* A percentage that forgets the factor 100.
hsPercentAsFraction(headshots, kills) ==
    IF Gt(kills, Num(0)) THEN Over(headshots, kills) ELSE Num(0)

\* kills > 0 ? (headshots / kills) * 100 : 0
hsPercentOf(headshots, kills) ==
    IF Gt(kills, Num(0)) THEN Times(Over(headshots, kills), Num(100)) ELSE Num(0)

\* The fields a normalizer does not set are undefined.
PlayerStat(playerId, nickname, kills, deaths, assists) ==
    [playerId |-> playerId, nickname |-> nickname,
     kills |-> kills, deaths |-> deaths, assists |-> assists,
     kdDiff |-> kdDiffOf(kills, deaths), kdRatio |-> kdRatioOf(kills, deaths),
     hsPercent |-> Undefined, krRatio |-> Undefined, mvps |-> Undefined,
     adr |-> Undefined, kast |-> Undefined, rating |-> Undefined,
     tripleKills |-> Undefined, quadroKills |-> Undefined, pentaKills |-> Undefined]

\* The optional fields of a map that a normalizer does not set are undefined.
MapStats(mapName, mapNumber, team1Score, team2Score, team1Won, team1Players, team2Players) ==
    [mapName |-> mapName, mapNumber |-> mapNumber,
     team1Score |-> team1Score, team2Score |-> team2Score, team1Won |-> team1Won,
     team1FirstHalf |-> Undefined, team1SecondHalf |-> Undefined,
     team2FirstHalf |-> Undefined, team2SecondHalf |-> Undefined,
     team1Overtime |-> Undefined, team2Overtime |-> Undefined,
     team1Players |-> team1Players, team2Players |-> team2Players]

MatchStats(src, team1Name, team2Name, maps, availableColumns) ==
    [source |-> src, team1Name |-> team1Name, team2Name |-> team2Name,
     maps |-> maps, availableColumns |-> availableColumns, hasSideSplits |-> FALSE]

\* `Map ${n}`
MapLabel(k) == Str(<<"M", "a", "p", " ">> \o DigitString(k))

(***************************************************************************)
(* The FACEIT normalizer                                                   *)
(***************************************************************************)
\* A parse that hands the failure on.
parseNumNoDefault(value) ==
    IF value = Undefined \/ value = Null THEN Num(0)
    ELSE IF IsNumber(value) THEN value
    ELSE parseFloat(value)

parseNum(value) ==
    IF value = Undefined \/ value = Null THEN Num(0)
    ELSE IF IsNumber(value) THEN value
    ELSE LET parsed == parseFloat(value) IN IF parsed = NaN THEN Num(0) ELSE parsed

parseNumOpt(value) ==
    IF value = Undefined \/ value = Null THEN Undefined
    ELSE IF IsNumber(value) THEN value
    ELSE LET parsed == parseFloat(value) IN IF parsed = NaN THEN Undefined ELSE parsed

faceitNormalizePlayer(p) ==
    LET kills == parseNum(Get(p.player_stats, "Kills"))
        deaths == parseNum(Get(p.player_stats, "Deaths"))
        assists == parseNum(Get(p.player_stats, "Assists"))
    IN  [PlayerStat(p.player_id, p.nickname, kills, deaths, assists) EXCEPT
            !.hsPercent = parseNumOpt(Get(p.player_stats, "Headshots %")),
            !.krRatio = parseNumOpt(Get(p.player_stats, "K/R Ratio")),
            !.mvps = parseNumOpt(Get(p.player_stats, "MVPs")),
            !.tripleKills = parseNumOpt(Get(p.player_stats, "Triple Kills")),
            !.quadroKills = parseNumOpt(Get(p.player_stats, "Quadro Kills")),
            !.pentaKills = parseNumOpt(Get(p.player_stats, "Penta Kills"))]

\* round.teams?.[k]
faceitTeam(round, k) == IF k <= Len(round.teams) THEN round.teams[k] ELSE Undefined

\* t?.team_stats?.[key]
faceitTeamStat(t, key) == IF t = Undefined THEN Undefined ELSE Get(t.team_stats, key)

\* t?.team_stats?.['Final Score'] ?? t?.team_stats?.['FinalScore']
faceitFinalScore(t) ==
    LET first == faceitTeamStat(t, "Final Score")
    IN  IF first = Undefined \/ first = Null THEN faceitTeamStat(t, "FinalScore") ELSE first

\* (t?.players || []).map(normalizePlayer)
faceitPlayers(t) ==
    IF t = Undefined THEN <<>> ELSE [k \in DOMAIN t.players |-> faceitNormalizePlayer(t.players[k])]

faceitMap(round, i) ==
    LET t1 == faceitTeam(round, 1)
        t2 == faceitTeam(round, 2)
        team1Score == parseNum(faceitFinalScore(t1))
        team2Score == parseNum(faceitFinalScore(t2))
        named == Get(round.round_stats, "Map")
    IN  [MapStats(IF named = Undefined \/ named = Str(<<>>) THEN MapLabel(i) ELSE named, i,
                  team1Score, team2Score, Gt(team1Score, team2Score),
                  faceitPlayers(t1), faceitPlayers(t2)) EXCEPT
            !.team1FirstHalf = parseNumOpt(faceitTeamStat(t1, "First Half Score")),
            !.team1SecondHalf = parseNumOpt(faceitTeamStat(t1, "Second Half Score")),
            !.team2FirstHalf = parseNumOpt(faceitTeamStat(t2, "First Half Score")),
            !.team2SecondHalf = parseNumOpt(faceitTeamStat(t2, "Second Half Score")),
            !.team1Overtime = parseNumOpt(faceitTeamStat(t1, "Overtime score")),
            !.team2Overtime = parseNumOpt(faceitTeamStat(t2, "Overtime score"))]

faceitColumns ==
    <<"kills", "deaths", "assists", "kdDiff", "kdRatio", "hsPercent", "krRatio", "mvps">>

\* A guard that forgets the empty list.
faceitHasNoRoundsMissingOnly(fs) == "rounds" \notin DOMAIN fs

\* !stats.rounds || stats.rounds.length === 0
faceitHasNoRounds(fs) == "rounds" \notin DOMAIN fs \/ Len(fs.rounds) = 0

normalizeFaceitStats(fs) ==
    IF faceitHasNoRounds(fs) THEN Null
    ELSE MatchStats("faceit", fs.team1Name, fs.team2Name,
                    [i \in DOMAIN fs.rounds |-> faceitMap(fs.rounds[i], i)], faceitColumns)

(***************************************************************************)
(* The cross-map aggregator                                                *)
(***************************************************************************)
\* A count that keeps the last map's value instead of adding it.
sumOptionalLast(existing, value) == IF value = Undefined THEN existing ELSE value

\* (existing.x ?? 0) + p.x when p.x is defined.
sumOptional(existing, value) ==
    IF value = Undefined THEN existing
    ELSE Plus(IF existing = Undefined \/ existing = Null THEN Num(0) ELSE existing, value)

\* (existing.x + p.x) / 2 when both are defined.
averageOptional(existing, value) ==
    IF value # Undefined /\ existing # Undefined THEN Over(Plus(existing, value), Num(2)) ELSE existing

\* A headshot percentage averaged map by map, whatever the kills.
mergedHsPercentNaive(existing, p, kills) ==
    IF p.hsPercent # Undefined /\ existing.hsPercent # Undefined
    THEN Over(Plus(existing.hsPercent, p.hsPercent), Num(2))
    ELSE existing.hsPercent

\* The weighted HS% of the merged row; kills is the merged kill count.
mergedHsPercent(existing, p, kills) ==
    IF p.hsPercent # Undefined /\ existing.hsPercent # Undefined
    THEN LET prevHSCount == Times(Minus(kills, p.kills), Over(existing.hsPercent, Num(100)))
             curHSCount == Times(p.kills, Over(p.hsPercent, Num(100)))
         IN  IF Gt(kills, Num(0))
             THEN Times(Over(Plus(prevHSCount, curHSCount), kills), Num(100))
             ELSE Num(0)
    ELSE existing.hsPercent

\* existing.deaths > 0 ? existing.kills / existing.deaths : existing.kills
mergedKdRatio(existing, kills, deaths) == kdRatioOf(kills, deaths)

\* The else branch of the loop body: p merged into the row kept for its player.
mergePlayer(existing, p) ==
    LET kills == Plus(existing.kills, p.kills)
        deaths == Plus(existing.deaths, p.deaths)
    IN  [existing EXCEPT
            !.kills = kills,
            !.deaths = deaths,
            !.assists = Plus(existing.assists, p.assists),
            !.kdDiff = Minus(kills, deaths),
            !.kdRatio = mergedKdRatio(existing, kills, deaths),
            !.hsPercent = mergedHsPercent(existing, p, kills),
            !.mvps = sumOptional(existing.mvps, p.mvps),
            !.krRatio = averageOptional(existing.krRatio, p.krRatio),
            !.adr = averageOptional(existing.adr, p.adr),
            !.kast = averageOptional(existing.kast, p.kast),
            !.rating = averageOptional(existing.rating, p.rating),
            !.tripleKills = sumOptional(existing.tripleKills, p.tripleKills),
            !.quadroKills = sumOptional(existing.quadroKills, p.quadroKills),
            !.pentaKills = sumOptional(existing.pentaKills, p.pentaKills)]

\* A value of playerMap: the row, and where it lives.  A row that is an
\* object of the input has the place [map, row] of that object; a row that
\* is an object of its own has none.

\* playerMap.set(p.playerId, p): the value is the object of the input.
sharePlayer(p, place) == [val |-> p, at |-> place]

\* playerMap.set(p.playerId, { ...p }): the value is a fresh object.
copyPlayer(p, place) == [val |-> p, at |-> Undefined]

\* The input after the assignments to existing: they reach the input when
\* existing is one of its objects.
writeThrough(maps, teamKey, entry) ==
    IF entry.at = Undefined THEN maps
    ELSE [maps EXCEPT ![entry.at.map][teamKey][entry.at.row] = entry.val]

\* The body of the inner loop for p = maps[i][teamKey][k]; acc holds the
\* input as it is now and the values of playerMap in insertion order.
addPlayer(acc, teamKey, i, k) ==
    LET p == acc.maps[i][teamKey][k]
        at == {x \in DOMAIN acc.entries : acc.entries[x].val.playerId = p.playerId}
    IN  IF at = {}
        THEN [acc EXCEPT !.entries = Append(@, copyPlayer(p, [map |-> i, row |-> k]))]
        ELSE LET x == CHOOSE y \in at : TRUE
                 merged == [acc.entries[x] EXCEPT !.val = mergePlayer(@, p)]
             IN  [maps |-> writeThrough(acc.maps, teamKey, merged),
                  entries |-> [acc.entries EXCEPT ![x] = merged]]

RECURSIVE addPlayers(_, _, _, _)
\* for (const p of map[teamKey]), from the k-th row on
addPlayers(acc, teamKey, i, k) ==
    IF k > Len(acc.maps[i][teamKey]) THEN acc
    ELSE addPlayers(addPlayer(acc, teamKey, i, k), teamKey, i, k + 1)

RECURSIVE aggregateFrom(_, _, _)
\* for (const map of maps), from the i-th map on
aggregateFrom(acc, teamKey, i) ==
    IF i > Len(acc.maps) THEN acc
    ELSE aggregateFrom(addPlayers(acc, teamKey, i, 1), teamKey, i + 1)

\* One call: the input as the call leaves it, and playerMap.
aggregateCall(maps, teamKey) == aggregateFrom([maps |-> maps, entries |-> <<>>], teamKey, 1)

\* Array.from(playerMap.values())
aggregatePlayerStats(maps, teamKey) ==
    LET entries == aggregateCall(maps, teamKey).entries
    IN  [x \in DOMAIN entries |-> entries[x].val]

\* The maps array after the call.
mapsAfterAggregate(maps, teamKey) == aggregateCall(maps, teamKey).maps

(***************************************************************************)
(* Map names                                                               *)
(***************************************************************************)
Lower == <<"a", "b", "c", "d", "e", "f", "g", "h", "i", "j", "k", "l", "m",
           "n", "o", "p", "q", "r", "s", "t", "u", "v", "w", "x", "y", "z">>

Upper == <<"A", "B", "C", "D", "E", "F", "G", "H", "I", "J", "K", "L", "M",
           "N", "O", "P", "Q", "R", "S", "T", "U", "V", "W", "X", "Y", "Z">>

toUpperCase(c) ==
    IF \E i \in DOMAIN Lower : Lower[i] = c
    THEN Upper[CHOOSE i \in DOMAIN Lower : Lower[i] = c]
    ELSE c

\* raw.replace(/^de_/i, '') and the first letter in upper case.
capitalizeStripped(chars) ==
    LET prefixed == /\ Len(chars) >= 3
                    /\ chars[1] \in {"d", "D"} /\ chars[2] \in {"e", "E"} /\ chars[3] = "_"
        stripped == IF prefixed THEN SubSeq(chars, 4, Len(chars)) ELSE chars
    IN  IF Len(stripped) = 0 THEN <<>> ELSE <<toUpperCase(Head(stripped))>> \o Tail(stripped)

\* formatMapName of pandascore-stats.ts: 'Unknown' for null or ''.
psFormatMapName(raw) ==
    IF raw = Null \/ raw = Str(<<>>) THEN Str(<<"U", "n", "k", "n", "o", "w", "n">>)
    ELSE Str(capitalizeStripped(raw.str))

\* formatMapName of the Grid normalizer.
gridFormatMapName(raw) == Str(capitalizeStripped(raw.str))

RECURSIVE SortedInts(_)
SortedInts(S) ==
    IF S = {} THEN <<>>
    ELSE LET lo == CHOOSE x \in S : \A y \in S : x <= y
         IN  <<lo>> \o SortedInts(S \ {lo})

\* [...list].sort((a, b) => Key(a) - Key(b)): a stable sort.
SortStable(list, Key(_)) ==
    LET keys == SortedInts({Key(list[i]) : i \in DOMAIN list})
    IN  SeqConcat([k \in DOMAIN keys |-> SelectSeq(list, LAMBDA x : Key(x) = keys[k])])

(***************************************************************************)
(* The PandaScore normalizer                                               *)
(***************************************************************************)
\* x ?? undefined
orUndefined(x) == IF x = Null THEN Undefined ELSE x

psPosition(g) == g.position

\* game.winner?.id === teamId
psWonBy(game, teamId) == game.winner # Null /\ game.winner.id = teamId

\* game.map?.name ?? null
psMapName(game) == IF game.map = Null THEN Null ELSE game.map.name

psNormalizePlayer(ps) ==
    LET kills == ps.stats.kills
        deaths == ps.stats.deaths
    IN  [PlayerStat(Str(DigitString(ps.player_id)),
                    Str(<<"P", "l", "a", "y", "e", "r", " ">> \o DigitString(ps.player_id)),
                    kills, deaths, ps.stats.assists) EXCEPT
            !.hsPercent = hsPercentOf(ps.stats.headshots, kills),
            !.adr = orUndefined(ps.stats.adr),
            !.kast = orUndefined(ps.stats.kast),
            !.rating = orUndefined(ps.stats.rating)]

psTeamRows(playerStats, game, teamId) ==
    LET rows == SelectSeq(playerStats, LAMBDA ps : ps.game_id = game.id /\ ps.team_id = teamId)
    IN  [k \in DOMAIN rows |-> psNormalizePlayer(rows[k])]

psMap(pl, game, i) ==
    LET t1Won == psWonBy(game, pl.team1Id)
        t2Won == psWonBy(game, pl.team2Id)
    IN  MapStats(psFormatMapName(psMapName(game)), i,
                 IF t1Won THEN Num(1) ELSE Num(0), IF t2Won THEN Num(1) ELSE Num(0), t1Won,
                 psTeamRows(pl.playerStats, game, pl.team1Id),
                 psTeamRows(pl.playerStats, game, pl.team2Id))

\* hasAdr, hasKast, hasRating: some row of playerStats carries the value.
psHasColumn(pl, key) ==
    \E k \in DOMAIN pl.playerStats :
        pl.playerStats[k].stats[key] # Null /\ pl.playerStats[k].stats[key] # Undefined

psColumns(pl) ==
    <<"kills", "deaths", "assists", "kdDiff", "kdRatio", "hsPercent">>
    \o (IF psHasColumn(pl, "adr") THEN <<"adr">> ELSE <<>>)
    \o (IF psHasColumn(pl, "kast") THEN <<"kast">> ELSE <<>>)
    \o (IF psHasColumn(pl, "rating") THEN <<"rating">> ELSE <<>>)

\* g.finished || g.status === 'running'
psPlayed(g) == g.finished \/ g.status = "running"

normalizePandaScoreStats(pl) ==
    IF Len(pl.playerStats) = 0 THEN Null
    ELSE IF Len(pl.games) = 0 THEN Null
    ELSE LET sortedGames == SortStable(pl.games, psPosition)
             played == SelectSeq(sortedGames, psPlayed)
             maps == [i \in DOMAIN played |-> psMap(pl, played[i], i)]
         IN  IF Len(maps) = 0 THEN Null
             ELSE MatchStats("pandascore", pl.team1Name, pl.team2Name, maps, psColumns(pl))

(***************************************************************************)
(* The Grid normalizer                                                     *)
(***************************************************************************)
gridNormalizePlayer(p, totalRounds) ==
    [PlayerStat(p.id, p.name, p.kills, p.deaths, p.killAssistsGiven) EXCEPT
        !.hsPercent = hsPercentOf(p.headshots, p.kills),
        !.adr = IF Gt(totalRounds, Num(0)) THEN Over(p.damageDealt, totalRounds) ELSE Num(0)]

gridSequence(g) == g.sequenceNumber

\* g.finished || g.teams.some((t) => t.score > 0)
gridPlayed(g) == g.finished \/ \E k \in DOMAIN g.teams : Gt(g.teams[k].score, Num(0))

\* game.teams.find((t) => t.name === name) ?? game.teams[k]
gridTeam(game, name, k) ==
    LET at == {i \in DOMAIN game.teams : game.teams[i].name = name}
    IN  IF at # {} THEN game.teams[CHOOSE i \in at : \A j \in at : i <= j]
        ELSE IF k <= Len(game.teams) THEN game.teams[k]
        ELSE Undefined

gridMap(game, i, team1Name, team2Name) ==
    LET t1 == gridTeam(game, team1Name, 1)
        t2 == gridTeam(game, team2Name, 2)
        totalRounds == Plus(t1.score, t2.score)
    IN  MapStats(IF game.map # Null /\ game.map.name # Str(<<>>)
                 THEN gridFormatMapName(game.map.name) ELSE MapLabel(i),
                 i, t1.score, t2.score, t1.won,
                 [k \in DOMAIN t1.players |-> gridNormalizePlayer(t1.players[k], totalRounds)],
                 [k \in DOMAIN t2.players |-> gridNormalizePlayer(t2.players[k], totalRounds)])

gridColumns == <<"kills", "deaths", "assists", "kdDiff", "kdRatio", "hsPercent", "adr">>

normalizeGridStats(seriesState) ==
    IF "games" \notin DOMAIN seriesState THEN Null
    ELSE LET games == SortStable(SelectSeq(seriesState.games, gridPlayed), gridSequence)
         IN  IF Len(games) = 0 THEN Null
             ELSE IF Len(games[1].teams) < 2 THEN Null
             ELSE LET team1Name == games[1].teams[1].name
                      team2Name == games[1].teams[2].name
                  IN  IF \E i \in DOMAIN games :
                            \/ gridTeam(games[i], team1Name, 1) = Undefined
                            \/ gridTeam(games[i], team2Name, 2) = Undefined
                      THEN Thrown
                      ELSE MatchStats("grid", team1Name, team2Name,
                                      [i \in DOMAIN games |-> gridMap(games[i], i, team1Name, team2Name)],
                                      gridColumns)

(***************************************************************************)
(* Stats payloads                                                          *)
(***************************************************************************)
\* Largest kill, death and headshot count of a player on one map.
MaxCount == 2

\* Largest number of rounds (FACEIT) or games (PandaScore, Grid) of a payload.
MaxMaps == 2

\* Largest number of PandaScore stats rows in the many-row payloads.
MaxRows == 2

RECURSIVE SeqsOfLen(_, _)
SeqsOfLen(S, k) ==
    IF k = 0 THEN {<<>>} ELSE {Append(s, x) : s \in SeqsOfLen(S, k - 1), x \in S}

SeqsUpTo(S, k) == UNION {SeqsOfLen(S, j) : j \in 0..k}

\* A JSON object: the keys whose value is undefined are missing.
Obj(pairs) ==
    LET present == {i \in DOMAIN pairs : pairs[i][2] # Undefined}
    IN  [key \in {pairs[i][1] : i \in present} |->
            pairs[CHOOSE i \in present : pairs[i][1] = key][2]]

NukeName == Str(<<"d", "e", "_", "n", "u", "k", "e">>)

\* --- FACEIT: /matches/{id}/stats ---
FaceitPlayerIds == {Str(<<"p", "1">>), Str(<<"p", "2">>)}

\* A count as FACEIT sends it: a digit string, a malformed string, a missing
\* key, or a JSON number.
RawCounts == {Str(DigitString(k)) : k \in 0..MaxCount} \cup {Str(<<"x">>), Undefined, Num(1)}

FaceitPlayer(id, playerStats) == [player_id |-> id, nickname |-> id, player_stats |-> playerStats]

FaceitPlayerStats(kills, deaths, assists, headshots, hsPercent, krRatio, mvps, multi) ==
    Obj(<< <<"Kills", kills>>, <<"Deaths", deaths>>, <<"Assists", assists>>,
           <<"Headshots", headshots>>, <<"Headshots %", hsPercent>>,
           <<"K/R Ratio", krRatio>>, <<"MVPs", mvps>>,
           <<"Triple Kills", multi>>, <<"Quadro Kills", multi>>, <<"Penta Kills", multi>> >>)

\* Every combination of raw values on one player.
FaceitRichStats ==
    {FaceitPlayerStats(k, d, a, Str(<<"1">>), hs, kr, mv, mu) :
        k \in RawCounts, d \in RawCounts, a \in {Undefined, Str(<<"1">>)},
        hs \in {Undefined, Str(<<"5", "0">>), Str(<<"0">>)},
        kr \in {Undefined, Str(<<"0", ".", "5">>)},
        mv \in {Undefined, Str(<<"1">>)}, mu \in {Undefined, Str(<<"1">>)}}

\* Complete rows with no or one kill and no or one death.
FaceitPlainStats ==
    {FaceitPlayerStats(Str(DigitString(k)), Str(DigitString(d)), Str(<<"1">>), Str(<<"1">>),
                       Str(<<"5", "0">>), Str(<<"0", ".", "5">>), Str(<<"1">>), Str(<<"1">>)) :
        k \in 0..1, d \in 0..1}

FaceitFixedStats ==
    FaceitPlayerStats(Str(<<"2">>), Str(<<"1">>), Str(<<"1">>), Str(<<"1">>),
                      Str(<<"5", "0">>), Str(<<"0", ".", "5">>), Str(<<"1">>), Str(<<"1">>))

\* A value FACEIT sends where a number is expected: a digit string, a number
\* followed by text, a string that is no number, the empty string.
MalformedPicks == {Str(<<"7">>), Str(<<"7", "x">>), Str(<<"x">>), Str(<<>>)}

\* One raw value on the three counts, one on the optional fields.
FaceitMalformedStats ==
    {FaceitPlayerStats(c, c, c, Str(<<"1">>), o, o, o, o) : c \in MalformedPicks, o \in MalformedPicks}

FaceitTeamStats ==
    {Obj(<<>>),
     Obj(<< <<"Final Score", Str(<<"1", "3">>)>>, <<"First Half Score", Str(<<"7">>)>>,
            <<"Second Half Score", Str(<<"6">>)>> >>),
     Obj(<< <<"FinalScore", Str(<<"7">>)>> >>),
     Obj(<< <<"Final Score", Str(<<"x">>)>>, <<"First Half Score", Str(<<"x">>)>>,
            <<"Second Half Score", Str(<<"6">>)>>, <<"Overtime score", Str(<<>>)>> >>)}

FaceitTeam(teamStats, players) == [team_stats |-> teamStats, players |-> players]

FaceitOpponent ==
    FaceitTeam(Obj(<< <<"Final Score", Str(<<"1", "1">>)>> >>),
               << FaceitPlayer(Str(<<"q", "1">>), FaceitFixedStats) >>)

\* An opponent whose scores are no numbers.
FaceitMalformedOpponent ==
    FaceitTeam(Obj(<< <<"FinalScore", Str(<<"x">>)>>, <<"Second Half Score", Str(<<"x">>)>>,
                      <<"Overtime score", Num(3)>> >>),
               << FaceitPlayer(Str(<<"q", "1">>), FaceitFixedStats) >>)

FaceitRound(mapName, teams) == [round_stats |-> Obj(<< <<"Map", mapName>> >>), teams |-> teams]

FaceitPayload(rounds) == [rounds |-> rounds, team1Name |-> "A", team2Name |-> "B"]

\* One round, one player of team 1, every combination of raw values.
FaceitRichInputs ==
    {FaceitPayload(<< FaceitRound(NukeName, <<FaceitTeam(Obj(<<>>), <<FaceitPlayer(Str(<<"p", "1">>), ps)>>),
                                               FaceitOpponent>>) >>) :
        ps \in FaceitRichStats \cup FaceitMalformedStats}

\* One round of one complete row: the scores present, absent or under the
\* other key, the second team present or not, the map named or not.
FaceitRoundInputs ==
    {FaceitPayload(<< FaceitRound(mapName,
                                  <<FaceitTeam(ts, <<FaceitPlayer(Str(<<"p", "1">>), FaceitFixedStats)>>)>>
                                  \o rest) >>) :
        mapName \in {Undefined, Str(<<>>), NukeName}, ts \in FaceitTeamStats,
        rest \in {<<>>, <<FaceitOpponent>>, <<FaceitMalformedOpponent>>}}

FaceitTeamLists ==
    {<<>>}
    \cup {<<FaceitPlayer(id, ps)>> : id \in FaceitPlayerIds, ps \in FaceitPlainStats}
    \cup {<<FaceitPlayer(Str(<<"p", "1">>), ps), FaceitPlayer(Str(<<"p", "2">>), FaceitFixedStats)>> :
            ps \in FaceitPlainStats}

FaceitPlainRounds ==
    {FaceitRound(NukeName, <<FaceitTeam(Obj(<< <<"Final Score", Str(<<"1", "3">>)>> >>), players),
                             FaceitOpponent>>) : players \in FaceitTeamLists}

\* Up to MaxMaps rounds of complete rows, and the payload without rounds.
FaceitManyMapInputs ==
    {FaceitPayload(rounds) : rounds \in SeqsUpTo(FaceitPlainRounds, MaxMaps)}
    \cup {[team1Name |-> "A", team2Name |-> "B"]}

FaceitInputs == FaceitRichInputs \cup FaceitRoundInputs \cup FaceitManyMapInputs

\* --- PandaScore: /csgo/matches/{id}/players/stats and /games ---
Counts == {Num(k) : k \in 0..MaxCount}

PSRow(playerId, teamId, gameId, kills, deaths, headshots, adr, kast, rating) ==
    [player_id |-> playerId, team_id |-> teamId, game_id |-> gameId,
     stats |-> [kills |-> kills, deaths |-> deaths, assists |-> Num(1), headshots |-> headshots,
                adr |-> adr, kast |-> kast, rating |-> rating]]

PSGame(id, position, finished, status, winner, map) ==
    [id |-> id, position |-> position, finished |-> finished, status |-> status,
     winner |-> winner, map |-> map]

PSPayload(playerStats, games) ==
    [playerStats |-> playerStats, games |-> games,
     team1Name |-> "A", team2Name |-> "B", team1Id |-> 1, team2Id |-> 2]

\* One finished game, one stats row, every combination of values; the row is
\* of team 1, team 2 or a third team, and of the game or of an unlisted game.
PSRichInputs ==
    {PSPayload(<<PSRow(1, team, game, k, d, h, adr, kast, rating)>>,
               <<PSGame(1, 1, TRUE, "finished", [id |-> 1], [name |-> NukeName])>>) :
        team \in 1..3, game \in 1..2, k \in Counts, d \in Counts, h \in Counts,
        adr \in {Null, Num(80)}, kast \in {Null, Undefined, Num(70)}, rating \in {Null, Frac(11, 10)}}

\* One finished game of one row: won by either team or by none, on a named
\* map or on none.
PSGameInputs ==
    {PSPayload(<<PSRow(1, 1, 1, Num(2), Num(1), Num(1), Null, Null, Null)>>,
               <<PSGame(1, 1, TRUE, "finished", winner, map)>>) :
        winner \in {Null, [id |-> 1], [id |-> 2]}, map \in {Null, [name |-> NukeName]}}

PSGameStates == {<<TRUE, "finished">>, <<FALSE, "running">>, <<FALSE, "not_started">>}

\* Games 1..k, each finished, running or not started, in ascending or
\* descending position.
PSGameLists ==
    UNION {{[i \in 1..k |-> PSGame(i, IF ascending THEN i ELSE k + 1 - i, st[i][1], st[i][2],
                                   [id |-> 1], [name |-> NukeName])] :
              st \in [1..k -> PSGameStates], ascending \in BOOLEAN} : k \in 0..MaxMaps}

\* Rows of one player, of team 1 or of a third team, of the first or the
\* second game, with all or none of adr, kast and rating.
PSPlainRows ==
    {PSRow(1, team, game, Num(2), Num(1), Num(1), opt[1], opt[2], opt[3]) :
        team \in {1, 3}, game \in 1..2,
        opt \in {<<Null, Null, Null>>, <<Num(80), Num(70), Frac(11, 10)>>}}

PSRowLists == SeqsUpTo(PSPlainRows, MaxRows)

PSFixedRows ==
    <<PSRow(1, 1, 1, Num(2), Num(1), Num(1), Null, Null, Null),
      PSRow(1, 1, 2, Num(1), Num(0), Num(1), Num(80), Num(70), Frac(11, 10))>>

PSFixedGames ==
    [i \in 1..2 |-> PSGame(i, i, TRUE, "finished", [id |-> 1], [name |-> NukeName])]

\* Every list of rows with the two games finished or the first game alone,
\* and every list of games with one row for each of the first two games.
PSManyRowInputs ==
    {PSPayload(rows, games) : rows \in PSRowLists, games \in {PSFixedGames, SubSeq(PSFixedGames, 1, 1)}}
    \cup {PSPayload(PSFixedRows, games) : games \in PSGameLists}

PandaScoreInputs == PSRichInputs \cup PSGameInputs \cup PSManyRowInputs

\* --- Grid: the live-data-feed series state ---
GridPlayer(id, kills, deaths, headshots, damageDealt) ==
    [id |-> id, name |-> id, kills |-> kills, deaths |-> deaths, killAssistsGiven |-> Num(1),
     headshots |-> headshots, damageDealt |-> damageDealt]

GridTeam(name, won, score, players) == [name |-> name, won |-> won, score |-> score, players |-> players]

GridGame(sequenceNumber, finished, teams) ==
    [sequenceNumber |-> sequenceNumber, finished |-> finished, map |-> [name |-> NukeName], teams |-> teams]

GridFixedPlayer(id) == GridPlayer(id, Num(2), Num(1), Num(1), Num(150))

\* One game, one player of the first team, every combination of values.
GridRichInputs ==
    {[games |-> <<GridGame(1, finished,
                           <<GridTeam("A", TRUE, score[1], <<GridPlayer(Str(<<"g", "1">>), k, d, h, dmg)>>),
                             GridTeam("B", FALSE, score[2], <<GridFixedPlayer(Str(<<"g", "2">>))>>)>>)>>] :
        finished \in BOOLEAN, score \in {<<Num(0), Num(0)>>, <<Num(13), Num(7)>>},
        k \in Counts, d \in Counts, h \in Counts, dmg \in {Num(0), Num(150)}}

GridTeamA(score) == GridTeam("A", TRUE, score, <<GridFixedPlayer(Str(<<"g", "1">>))>>)

GridTeamB(score) == GridTeam("B", FALSE, score, <<GridFixedPlayer(Str(<<"g", "2">>))>>)

\* The teams of a game: in the first game's order, swapped, or missing.
GridTeamLayouts ==
    UNION {{<<GridTeamA(score[1]), GridTeamB(score[2])>>,
            <<GridTeamB(score[2]), GridTeamA(score[1])>>,
            <<>>} : score \in {<<Num(0), Num(0)>>, <<Num(2), Num(1)>>}}

GridGameLists ==
    UNION {{[i \in 1..k |-> GridGame(IF ascending THEN i ELSE k + 1 - i, fin[i], teams[i])] :
              fin \in [1..k -> BOOLEAN], teams \in [1..k -> GridTeamLayouts], ascending \in BOOLEAN} :
           k \in 0..MaxMaps}

GridManyMapInputs == {[games |-> games] : games \in GridGameLists} \cup {[id |-> "series"]}

GridInputs == GridRichInputs \cup GridManyMapInputs

(***************************************************************************)
(* The stats state machine                                                 *)
(***************************************************************************)
InitStats ==
    /\ bracketMatches = Idle /\ depthCache = Idle /\ isLBMatch = Idle /\ bracket = Idle
    /\ \/ source = "faceit" /\ payload \in FaceitInputs
       \/ source = "pandascore" /\ payload \in PandaScoreInputs
       \/ source = "grid" /\ payload \in GridInputs
    /\ stats = Pending
    /\ overall = Pending
    /\ tournaments = Idle /\ events = Idle
    /\ depthCalls = Idle /\ timing = Idle /\ derived = Idle

\* normalizeFaceitStats(stats, team1Name, team2Name)
NormalizeFaceit ==
    /\ source = "faceit" /\ stats = Pending
    /\ stats' = normalizeFaceitStats(payload)
    /\ UNCHANGED <<bracketVars, source, payload, overall, serieVars, depthCalls, statusVars>>

\* normalizePandaScoreStats(playerStats, games, team1Name, team2Name, team1Id, team2Id)
NormalizePandaScore ==
    /\ source = "pandascore" /\ stats = Pending
    /\ stats' = normalizePandaScoreStats(payload)
    /\ UNCHANGED <<bracketVars, source, payload, overall, serieVars, depthCalls, statusVars>>

\* normalizeGridStats(seriesState)
NormalizeGrid ==
    /\ source = "grid" /\ stats = Pending
    /\ stats' = normalizeGridStats(payload)
    /\ UNCHANGED <<bracketVars, source, payload, overall, serieVars, depthCalls, statusVars>>

\* aggregatePlayerStats(stats.maps, teamKey), as the "All Maps" tab calls it.
AggregatePlayerStats ==
    /\ stats \notin {Pending, Null, Thrown}
    /\ overall = Pending
    /\ \E teamKey \in {"team1Players", "team2Players"} :
        /\ overall' = [teamKey |-> teamKey, rows |-> aggregatePlayerStats(stats.maps, teamKey),
                       again |-> Pending]
        /\ stats' = [stats EXCEPT !.maps = mapsAfterAggregate(stats.maps, teamKey)]
    /\ UNCHANGED <<bracketVars, source, payload, serieVars, depthCalls, statusVars>>

NextStats == NormalizeFaceit \/ NormalizePandaScore \/ NormalizeGrid \/ AggregatePlayerStats

SpecStats == InitStats /\ [][NextStats]_vars

(***************************************************************************)
(* The aggregator on its own: maps handed to the "All Maps" tab            *)
(***************************************************************************)
\* Largest number of maps of a match handed to the aggregator.
MaxOverallMaps == 3

PlayerOne == Str(<<"p", "1">>)

PlayerTwo == Str(<<"p", "2">>)

\* A per-map row: count stands for mvps and the three multi-kill counts,
\* metric for krRatio, adr, kast and rating.
OverallRow(playerId, kills, deaths, hsPercent, count, metric) ==
    [PlayerStat(playerId, playerId, kills, deaths, Num(1)) EXCEPT
        !.hsPercent = hsPercent,
        !.mvps = count, !.tripleKills = count, !.quadroKills = count, !.pentaKills = count,
        !.krRatio = metric, !.adr = metric, !.kast = metric, !.rating = metric]

OverallFixedRow(playerId) == OverallRow(playerId, Num(2), Num(1), Num(50), Num(1), Num(1))

\* Rows of one player that differ in the summed fields.
SumLists ==
    {<<OverallRow(PlayerOne, p[1], p[2], Num(50), p[3], Num(1))>> :
        p \in {<<kd[1], kd[2], c>> : kd \in {<<Num(0), Num(1)>>, <<Num(2), Num(0)>>}, c \in {Undefined, Num(1)}}
               \cup {<<Num(2), Num(0), Num(2)>>}}

\* Rows of one player that differ in kills and headshot percentage.
HsLists ==
    {<<OverallRow(PlayerOne, p[1], Num(1), p[2], Num(1), Num(1))>> :
        p \in ({Num(1), Num(3)} \X {Num(0), Num(100)})
               \cup {<<Num(0), Num(100)>>, <<Num(1), Undefined>>}}

\* Rows of one player that differ in the averaged metrics; the player may
\* miss a map or share it with a team mate.
MetricLists ==
    {<<>>}
    \cup {<<OverallRow(PlayerOne, Num(1), Num(1), Num(50), Num(1), metric)>> :
            metric \in {Undefined, Num(1), Num(2)}}
    \cup {<<OverallFixedRow(PlayerTwo), OverallRow(PlayerOne, Num(1), Num(1), Num(50), Num(1), Num(2))>>}

\* Lists that differ in who plays and in which order.
LineupLists ==
    {<<>>, <<OverallFixedRow(PlayerOne)>>,
     <<OverallFixedRow(PlayerOne), OverallFixedRow(PlayerTwo)>>,
     <<OverallFixedRow(PlayerTwo), OverallFixedRow(PlayerOne)>>,
     <<OverallFixedRow(PlayerOne), OverallFixedRow(PlayerOne)>>}

\* A match of the given team-1 lists, one per map, against a fixed team 2.
OverallMatch(lists) ==
    MatchStats("faceit", "A", "B",
               [i \in DOMAIN lists |->
                    MapStats(MapLabel(i), i, Num(13), Num(7), TRUE,
                             lists[i], <<OverallFixedRow(Str(<<"q", "1">>))>>)],
               faceitColumns)

OverallInputs ==
    {OverallMatch(lists) :
        lists \in SeqsUpTo(SumLists, MaxOverallMaps) \cup SeqsUpTo(HsLists, MaxOverallMaps)
                  \cup SeqsUpTo(MetricLists, MaxOverallMaps) \cup SeqsUpTo(LineupLists, MaxOverallMaps)}

InitOverall ==
    /\ bracketMatches = Idle /\ depthCache = Idle /\ isLBMatch = Idle /\ bracket = Idle
    /\ source = Idle /\ payload = Idle
    /\ stats \in OverallInputs
    /\ overall = Pending
    /\ tournaments = Idle /\ events = Idle
    /\ depthCalls = Idle /\ timing = Idle /\ derived = Idle

\* The same call again on the same maps array (a later render).
AggregateAgain ==
    /\ overall \notin {Pending, Idle}
    /\ overall.again = Pending
    /\ overall' = [overall EXCEPT !.again = [rows |-> aggregatePlayerStats(stats.maps, overall.teamKey)]]
    /\ stats' = [stats EXCEPT !.maps = mapsAfterAggregate(stats.maps, overall.teamKey)]
    /\ UNCHANGED <<bracketVars, source, payload, serieVars, depthCalls, statusVars>>

NextOverall == AggregatePlayerStats \/ AggregateAgain

SpecOverall == InitOverall /\ [][NextOverall]_vars

(***************************************************************************)
(* groupBySerie: tournaments grouped into one event per series             *)
(***************************************************************************)
\* Largest number of tournaments handed to groupBySerie.
MaxTournaments == 3

toLowerCase(c) ==
    IF \E i \in DOMAIN Upper : Upper[i] = c
    THEN Lower[CHOOSE i \in DOMAIN Upper : Upper[i] = c]
    ELSE c

\* t.tier?.toLowerCase()
lowerTier(tier) ==
    IF tier = Null \/ tier = Undefined THEN Undefined
    ELSE Str([i \in DOMAIN tier.str |-> toLowerCase(tier.str[i])])

\* TIER_RANK[t.tier?.toLowerCase()] ?? 99
tierRank(tier) ==
    LET key == lowerTier(tier)
    IN  IF key = Str(<<"s">>) THEN 0
        ELSE IF key = Str(<<"a">>) THEN 1
        ELSE IF key = Str(<<"b">>) THEN 2
        ELSE IF key = Str(<<"c">>) THEN 3
        ELSE IF key = Str(<<"d">>) THEN 4
        ELSE 99

\* tier?.toUpperCase() || '?'
emittedTier(tier) ==
    IF tier = Null \/ tier = Undefined \/ tier = Str(<<>>) THEN Str(<<"?">>)
    ELSE Str([i \in DOMAIN tier.str |-> toUpperCase(tier.str[i])])

\* A reduce that keeps the last ranked tier instead of the best.
reduceTierLast(best, group, i) ==
    IF \E j \in DOMAIN group : tierRank(group[j].tier) < 99
    THEN group[CHOOSE j \in DOMAIN group :
                    /\ tierRank(group[j].tier) < 99
                    /\ \A l \in DOMAIN group : tierRank(group[l].tier) < 99 => l <= j].tier
    ELSE best

RECURSIVE reduceTier(_, _, _)
\* group.reduce((best, t) => rank < bestRank ? t.tier : best, group[0].tier), from the i-th member on
reduceTier(best, group, i) ==
    IF i > Len(group) THEN best
    ELSE reduceTier(IF tierRank(group[i].tier) < tierRank(best) THEN group[i].tier ELSE best,
                    group, i + 1)

bestTier(group) == reduceTier(group[1].tier, group, 1)

\* A status that looks at the first member only.
aggregateStatusOfFirst(group) == group[1]._status

\* any ongoing -> ongoing, else any upcoming -> upcoming, else completed
aggregateStatus(group) ==
    IF \E i \in DOMAIN group : group[i]._status = "ongoing" THEN "ongoing"
    ELSE IF \E i \in DOMAIN group : group[i]._status = "upcoming" THEN "upcoming"
    ELSE "completed"

RECURSIVE LexLess(_, _)
\* a < b for two strings of digits, as Array.prototype.sort compares them:
\* code unit by code unit, a proper prefix first.
LexLess(a, b) ==
    IF Len(b) = 0 THEN FALSE
    ELSE IF Len(a) = 0 THEN TRUE
    ELSE IF Head(a) = Head(b) THEN LexLess(Tail(a), Tail(b))
    ELSE DigitValue(Head(a)) < DigitValue(Head(b))

\* .filter(Boolean) on a list of dates: null and '' go.
truthyDates(dates) == SelectSeq(dates, LAMBDA date : date # Null /\ date # Str(<<>>))

\* dates.sort()[0]
firstSorted(dates) ==
    CHOOSE date \in SeqRange(dates) : \A other \in SeqRange(dates) : ~LexLess(other.str, date.str)

\* dates.sort().reverse()[0]
lastSorted(dates) ==
    CHOOSE date \in SeqRange(dates) : \A other \in SeqRange(dates) : ~LexLess(date.str, other.str)

\* An end date taken from the member that begins first.
endDateOfEarliest(group) ==
    LET beginDates == truthyDates([i \in DOMAIN group |-> group[i].begin_at])
    IN  IF Len(beginDates) = 0 THEN Null
        ELSE group[CHOOSE i \in DOMAIN group : group[i].begin_at = firstSorted(beginDates)].end_at

startDate(group) ==
    LET beginDates == truthyDates([i \in DOMAIN group |-> group[i].begin_at])
    IN  IF Len(beginDates) > 0 THEN firstSorted(beginDates) ELSE Str(<<>>)

endDate(group) ==
    LET endDates == truthyDates([i \in DOMAIN group |-> group[i].end_at])
    IN  IF Len(endDates) > 0 THEN lastSorted(endDates) ELSE Null

\* A key that ignores the serie.
groupKeyById(t) == [kind |-> "tour-", id |-> t.id]

\* t.serie?.id ? `serie-${t.serie.id}` : `tour-${t.id}`
groupKey(t) ==
    IF t.serie # Null /\ t.serie # Undefined /\ t.serie.id # 0
    THEN [kind |-> "serie-", id |-> t.serie.id]
    ELSE [kind |-> "tour-", id |-> t.id]

RECURSIVE groupKeys(_)
\* The keys of the Map, in insertion order.
groupKeys(list) ==
    IF Len(list) = 0 THEN <<>>
    ELSE LET before == groupKeys(SubSeq(list, 1, Len(list) - 1))
             key == groupKey(list[Len(list)])
         IN  IF key \in SeqRange(before) THEN before ELSE Append(before, key)

\* groups.get(key)
groupOf(list, key) == SelectSeq(list, LAMBDA t : groupKey(t) = key)

\* first.serie?.id
serieIdOf(t) == IF t.serie = Null \/ t.serie = Undefined THEN Undefined ELSE [id |-> t.serie.id]

\* The event of a group of one tournament.
singleEvent(t) ==
    [id |-> [prefix |-> "ps-", of |-> [id |-> t.id]],
     tier |-> emittedTier(t.tier),
     startDate |-> IF t.begin_at = Null \/ t.begin_at = Str(<<>>) THEN Str(<<>>) ELSE t.begin_at,
     endDate |-> t.end_at,
     status |-> t._status,
     isNA |-> t._isNA,
     serieId |-> Undefined,
     tournamentCount |-> Undefined]

\* The one event of a group of several tournaments.
serieEvent(group) ==
    [id |-> [prefix |-> "ps-serie-", of |-> serieIdOf(group[1])],
     tier |-> emittedTier(bestTier(group)),
     startDate |-> startDate(group),
     endDate |-> endDate(group),
     status |-> aggregateStatus(group),
     isNA |-> \E i \in DOMAIN group : group[i]._isNA,
     serieId |-> serieIdOf(group[1]),
     tournamentCount |-> [count |-> Len(group)]]

groupBySerie(list) ==
    LET keys == groupKeys(list)
    IN  [g \in DOMAIN keys |->
            LET group == groupOf(list, keys[g])
            IN  IF Len(group) = 1 THEN singleEvent(group[1]) ELSE serieEvent(group)]

\* --- tournaments ---
Tournament(id, serie, status, tier, beginAt, endAt) ==
    [id |-> id, serie |-> serie, _status |-> status, _isNA |-> (id = 1), tier |-> tier,
     begin_at |-> beginAt, end_at |-> endAt]

Serie(id) == [id |-> id]

Date(chars) == Str(chars)

\* Tournaments of serie 1, of serie 2 or of none, in every status.
StagePicks ==
    {[serie |-> p[1], status |-> p[2], tier |-> Str(<<"a">>),
      begin_at |-> Date(<<"0", "9">>), end_at |-> Date(<<"1", "1">>)] :
        p \in ({Serie(1)} \X {"ongoing", "upcoming", "completed"})
               \cup ({Null} \X {"ongoing", "completed"}) \cup ({Serie(2)} \X {"completed"})}

\* Tournaments of one serie that differ in tier.
TierPicks ==
    {[serie |-> Serie(1), status |-> "completed", tier |-> tier,
      begin_at |-> Date(<<"0", "9">>), end_at |-> Date(<<"1", "1">>)] :
        tier \in {Str(<<"s">>), Str(<<"S">>), Str(<<"a">>), Str(<<"B">>), Str(<<"x">>), Null}}

\* Tournaments of one serie that differ in dates.
DatePicks ==
    {[serie |-> Serie(1), status |-> "completed", tier |-> Str(<<"a">>),
      begin_at |-> p[1], end_at |-> p[2]] :
        p \in ({Date(<<"0", "9">>), Date(<<"1", "0">>)} \X {Date(<<"1", "1">>), Date(<<"1", "2">>)})
               \cup {<<Null, Null>>, <<Null, Date(<<"1", "1">>)>>, <<Date(<<"1", "0">>), Null>>}}

\* The i-th tournament of a list has id i.
TournamentList(picks) ==
    [i \in DOMAIN picks |->
        Tournament(i, picks[i].serie, picks[i].status, picks[i].tier, picks[i].begin_at, picks[i].end_at)]

TournamentInputs ==
    {TournamentList(picks) :
        picks \in SeqsUpTo(StagePicks, MaxTournaments) \cup SeqsUpTo(TierPicks, MaxTournaments)
                  \cup SeqsUpTo(DatePicks, MaxTournaments)}

InitSerie ==
    /\ bracketMatches = Idle /\ depthCache = Idle /\ isLBMatch = Idle /\ bracket = Idle
    /\ source = Idle /\ payload = Idle /\ stats = Idle /\ overall = Idle
    /\ tournaments \in TournamentInputs
    /\ events = Pending
    /\ depthCalls = Idle /\ timing = Idle /\ derived = Idle

\* One call groupBySerie(tournaments).
GroupBySerie ==
    /\ events = Pending
    /\ events' = [returned |-> groupBySerie(tournaments)]
    /\ UNCHANGED <<bracketVars, statsVars, tournaments, depthCalls, statusVars>>

NextSerie == GroupBySerie

SpecSerie == InitSerie /\ [][NextSerie]_vars

(***************************************************************************)
(* Status from timestamps: the series route and fetchTournamentStanding    *)
(***************************************************************************)
\* Latest instant of begin_at and end_at; Date.now() runs one past it.
MaxTime == 3

\* new Date(at).getTime(): the instant a timestamp spells, here in digits.
getTime(at) == DigitsValue(at.str)

\* at ? new Date(at).getTime() : null
timeOrNull(at) == IF at = Null \/ at = Str(<<>>) THEN Null ELSE [ms |-> getTime(at)]

\* A null and the instant 0 are falsy.
truthy(t) == t # Null /\ t.ms # 0

\* The status of a series in the series listing route.
seriesStatus(s, now) ==
    LET begin == timeOrNull(s.begin_at)
        end == timeOrNull(s.end_at)
    IN  IF truthy(begin) /\ now < begin.ms THEN "upcoming"
        ELSE IF truthy(end) /\ now > end.ms THEN "completed"
        ELSE IF truthy(begin) THEN "ongoing"
        ELSE "completed"

\* The status of a tournament in fetchTournamentStanding; 'finished' when
\* the tournament could not be fetched.
standingStatus(ok, t, now) ==
    LET begin == timeOrNull(t.begin_at)
        end == timeOrNull(t.end_at)
    IN  IF ~ok THEN "finished"
        ELSE IF truthy(begin) /\ now < begin.ms THEN "upcoming"
        ELSE IF truthy(end) /\ now > end.ms THEN "finished"
        ELSE "ongoing"

\* begin_at and end_at as PandaScore sends them: null or a timestamp.
Timestamps == {Null} \cup {Str(DigitString(k)) : k \in 1..MaxTime}

TimingInputs ==
    {[begin_at |-> b, end_at |-> e, now |-> n, ok |-> ok] :
        b \in Timestamps, e \in Timestamps, n \in 0..(MaxTime + 1), ok \in BOOLEAN}

InitStatus ==
    /\ bracketMatches = Idle /\ depthCache = Idle /\ isLBMatch = Idle /\ bracket = Idle
    /\ source = Idle /\ payload = Idle /\ stats = Idle /\ overall = Idle
    /\ tournaments = Idle /\ events = Idle
    /\ depthCalls = Idle
    /\ timing \in TimingInputs
    /\ derived = [series |-> Pending, standing |-> Pending]

\* The route maps one series to its listing entry.
SeriesStatus ==
    /\ derived.series = Pending
    /\ derived' = [derived EXCEPT !.series = [is |-> seriesStatus(timing, timing.now)]]
    /\ UNCHANGED <<bracketVars, statsVars, serieVars, depthCalls, timing>>

\* fetchTournamentStanding derives the status of one tournament.
StandingStatus ==
    /\ derived.standing = Pending
    /\ derived' = [derived EXCEPT !.standing = [is |-> standingStatus(timing.ok, timing, timing.now)]]
    /\ UNCHANGED <<bracketVars, statsVars, serieVars, depthCalls, timing>>

NextStatus == SeriesStatus \/ StandingStatus

SpecStatus == InitStatus /\ [][NextStatus]_vars

(***************************************************************************)
(* getDepth call by call                                                   *)
(*                                                                         *)
(* The loop of parseBracket over getDepth with the recursion spelled out:  *)
(* depthCalls.pending holds the ids the loop has not called yet and        *)
(* depthCalls.stack one frame per call in progress, the id and the next    *)
(* previous match to call.  The lists may hold cycles.                     *)
(***************************************************************************)
\* Largest number of matches in the enumerated lists that may hold cycles.
MaxCyclic == 2

\* A match that lists itself.
SelfReference == << BracketMatch(1, <<PrevRef("winner", 1)>>) >>

CycleOfThree ==
    << BracketMatch(1, <<PrevRef("winner", 3)>>), BracketMatch(2, <<PrevRef("winner", 1)>>),
       BracketMatch(3, <<PrevRef("winner", 2)>>) >>

\* Matches 2 and 3 list each other; match 1 is visited and cached first.
CycleBehindRoot ==
    << BracketMatch(1, <<>>), BracketMatch(2, <<PrevRef("winner", 1), PrevRef("winner", 3)>>),
       BracketMatch(3, <<PrevRef("loser", 2)>>) >>

DepthInputs ==
    {<<>>}
    \cup UNION {MatchLists(1..n, n) : n \in 1..MaxCyclic}
    \cup {SelfReference, CycleOfThree, CycleBehindRoot,
          DoubleElimination, Reverse(DoubleElimination), PartialLowerChain}

Frame(id) == [id |-> id, k |-> 1]

\* A step that calls the same previous match again and again.
samePrev(k) == k

\* previous_matches.map visits the previous matches one after the other.
nextPrev(k) == k + 1

\* The frames the engine holds before it gives up with a RangeError; here
\* one more than the ids a chain of calls without repetition can hold.
callStackLimit(ms) == Len(ms) + 1

prevIdsOf(m) == [k \in DOMAIN m.previous_matches |-> m.previous_matches[k].match_id]

\* !m || !m.previous_matches || m.previous_matches.length === 0
isRoot(m) == IF m = Undefined THEN TRUE ELSE Len(m.previous_matches) = 0

InitDepth ==
    /\ bracketMatches \in DepthInputs
    /\ depthCache = <<>>
    /\ isLBMatch = {}
    /\ bracket = Pending
    /\ depthCalls = [pending |-> [i \in DOMAIN bracketMatches |-> bracketMatches[i].id], stack |-> <<>>]
    /\ source = Idle /\ payload = Idle /\ stats = Idle /\ overall = Idle
    /\ tournaments = Idle /\ events = Idle
    /\ timing = Idle /\ derived = Idle

\* if (!bracketMatches || bracketMatches.length === 0) return null
EmptyReturn ==
    /\ bracket = Pending /\ isEmptyInput(bracketMatches)
    /\ bracket' = Null
    /\ UNCHANGED <<bracketMatches, depthCache, isLBMatch, statsVars, serieVars, depthCalls, statusVars>>

\* for (const m of bracketMatches) getDepth(m.id)
CallGetDepth ==
    /\ bracket = Pending
    /\ Len(depthCalls.stack) = 0 /\ Len(depthCalls.pending) > 0
    /\ depthCalls' = [pending |-> Tail(depthCalls.pending), stack |-> <<Frame(Head(depthCalls.pending))>>]
    /\ UNCHANGED <<bracketVars, statsVars, serieVars, statusVars>>

\* if (depthCache.has(matchId)) return depthCache.get(matchId)
ReturnCached ==
    /\ bracket = Pending /\ Len(depthCalls.stack) > 0
    /\ LET top == depthCalls.stack[Len(depthCalls.stack)]
       IN  /\ top.id \in DOMAIN depthCache
           /\ depthCalls' = [depthCalls EXCEPT !.stack = SubSeq(@, 1, Len(@) - 1)]
    /\ UNCHANGED <<bracketVars, statsVars, serieVars, statusVars>>

\* depthCache.set(matchId, 0); return 0
ReturnRoot ==
    /\ bracket = Pending /\ Len(depthCalls.stack) > 0
    /\ LET top == depthCalls.stack[Len(depthCalls.stack)]
       IN  /\ top.id \notin DOMAIN depthCache
           /\ isRoot(matchMapGet(bracketMatches, top.id))
           /\ depthCache' = depthCache @@ (top.id :> rootDepth)
           /\ depthCalls' = [depthCalls EXCEPT !.stack = SubSeq(@, 1, Len(@) - 1)]
    /\ UNCHANGED <<bracketMatches, isLBMatch, bracket, statsVars, serieVars, statusVars>>

\* getDepth(p.match_id) for the next previous match p
Recurse ==
    /\ bracket = Pending /\ Len(depthCalls.stack) > 0
    /\ Len(depthCalls.stack) < callStackLimit(bracketMatches)
    /\ LET n == Len(depthCalls.stack)
           top == depthCalls.stack[n]
           m == matchMapGet(bracketMatches, top.id)
       IN  /\ top.id \notin DOMAIN depthCache
           /\ ~isRoot(m)
           /\ top.k <= Len(m.previous_matches)
           /\ depthCalls' = [depthCalls EXCEPT
                                !.stack = Append([@ EXCEPT ![n].k = nextPrev(top.k)],
                                                 Frame(prevIdsOf(m)[top.k]))]
    /\ UNCHANGED <<bracketVars, statsVars, serieVars, statusVars>>

\* depth = maxPrevDepth + 1; depthCache.set(matchId, depth); return depth
ReturnDepth ==
    /\ bracket = Pending /\ Len(depthCalls.stack) > 0
    /\ LET top == depthCalls.stack[Len(depthCalls.stack)]
           m == matchMapGet(bracketMatches, top.id)
       IN  /\ top.id \notin DOMAIN depthCache
           /\ ~isRoot(m)
           /\ top.k > Len(m.previous_matches)
           /\ depthCache' = depthCache @@
                                (top.id :> depthFromPrev(maxPrevDepthOf(depthCache, prevIdsOf(m))))
           /\ depthCalls' = [depthCalls EXCEPT !.stack = SubSeq(@, 1, Len(@) - 1)]
    /\ UNCHANGED <<bracketMatches, isLBMatch, bracket, statsVars, serieVars, statusVars>>

\* One call more than the engine's stack holds: RangeError, "Maximum call
\* stack size exceeded".
Overflow ==
    /\ bracket = Pending /\ Len(depthCalls.stack) > 0
    /\ Len(depthCalls.stack) >= callStackLimit(bracketMatches)
    /\ LET top == depthCalls.stack[Len(depthCalls.stack)]
           m == matchMapGet(bracketMatches, top.id)
       IN  /\ top.id \notin DOMAIN depthCache
           /\ ~isRoot(m)
           /\ top.k <= Len(m.previous_matches)
    /\ bracket' = RangeError
    /\ UNCHANGED <<bracketMatches, depthCache, isLBMatch, statsVars, serieVars, depthCalls, statusVars>>

\* The rest of parseBracket, once the loop over getDepth is through.
FinishParse ==
    /\ bracket = Pending /\ ~isEmptyInput(bracketMatches)
    /\ Len(depthCalls.stack) = 0 /\ Len(depthCalls.pending) = 0
    /\ LET isLB == classify(bracketMatches, depthCache)
       IN  /\ isLBMatch' = isLB
           /\ bracket' = parsedBracket(bracketMatches, depthCache, isLB)
    /\ UNCHANGED <<bracketMatches, depthCache, statsVars, serieVars, depthCalls, statusVars>>

NextDepth ==
    \/ EmptyReturn
    \/ CallGetDepth
    \/ ReturnCached
    \/ ReturnRoot
    \/ Recurse
    \/ ReturnDepth
    \/ Overflow
    \/ FinishParse

\* The call is synchronous: it runs until it returns or throws.
SpecDepth == InitDepth /\ [][NextDepth]_vars /\ WF_vars(NextDepth)

(***************************************************************************)
(* Properties of parseBracket                                              *)
(***************************************************************************)
Parsed == bracket \notin {Pending, Null}

RoundIds(rounds) ==
    SeqConcat([i \in DOMAIN rounds |->
                 [k \in DOMAIN rounds[i].matches |-> rounds[i].matches[k].id]])

PlacedIds ==
    RoundIds(bracket.upperBracket) \o RoundIds(bracket.lowerBracket)
    \o (IF bracket.grandFinal = Null THEN <<>> ELSE <<bracket.grandFinal.id>>)

Count(s, x) == Cardinality({i \in DOMAIN s : s[i] = x})

InputIds == {bracketMatches[i].id : i \in DOMAIN bracketMatches}

\* C1: every id of a non-empty input list is placed exactly once among the
\* upper rounds, the lower rounds and the grand final; nothing else is placed.
C1_EveryMatchPlacedOnce ==
    Parsed =>
        /\ \A id \in InputIds : Count(PlacedIds, id) = 1
        /\ Len(PlacedIds) = Len(bracketMatches)

\* C1 witness: a result with an upper round, a lower round and a grand final.
C1_Witness ==
    /\ Parsed
    /\ Len(bracket.upperBracket) > 0
    /\ Len(bracket.lowerBracket) > 0
    /\ bracket.grandFinal # Null

\* C2: parseBracket returns null exactly when the list is empty; on every
\* non-empty acyclic list the call completes and returns a ParsedBracket.
C2_NullIffEmpty ==
    /\ bracket # Pending => (bracket = Null <=> Len(bracketMatches) = 0)
    /\ Parsed => DOMAIN bracket = {"upperBracket", "lowerBracket", "grandFinal"}

\* C2 witness: a one-match list parsed into a bracket.
C2_Witness == Parsed /\ Len(bracketMatches) = 1

\* C2 witness of the null case is reachable too: the empty list returned null.
C2_NullReached == bracket = Null /\ Len(bracketMatches) = 0

\* C3: depth monotonicity: each predecessor listed by a match is strictly
\* shallower than the match.
C3_DepthMonotone ==
    Parsed =>
        \A i \in DOMAIN bracketMatches :
            \A k \in DOMAIN bracketMatches[i].previous_matches :
                DepthOf(depthCache, bracketMatches[i].previous_matches[k].match_id)
                    < DepthOf(depthCache, bracketMatches[i].id)

\* C3 witness: a chain of three matches, the last at depth 2.
C3_Witness ==
    /\ Parsed
    /\ \E i \in DOMAIN bracketMatches :
        \E k \in DOMAIN bracketMatches[i].previous_matches :
            /\ DepthOf(depthCache, bracketMatches[i].previous_matches[k].match_id) = 1
            /\ DepthOf(depthCache, bracketMatches[i].id) = 2

HasLoserRef(m) ==
    \E k \in DOMAIN m.previous_matches : m.previous_matches[k].type = "loser"

WinnerFedBy(m, id) ==
    \E k \in DOMAIN m.previous_matches :
        m.previous_matches[k].type = "winner" /\ m.previous_matches[k].match_id = id

\* C4: loser-feed propagation: a match with a loser-type reference is
\* lower-bracket, and so is a match with a winner-type reference to a
\* lower-bracket match.
C4_LoserFeedPropagates ==
    Parsed =>
        \A i \in DOMAIN bracketMatches :
            LET b == bracketMatches[i]
            IN  /\ HasLoserRef(b) => b.id \in isLBMatch
                /\ \A a \in isLBMatch : WinnerFedBy(b, a) => b.id \in isLBMatch

\* C4 witness: a match without a loser reference, listed before the
\* lower-bracket match whose winner it takes, is classified lower-bracket.
C4_Witness ==
    /\ Parsed
    /\ \E i, j \in DOMAIN bracketMatches :
        /\ i < j
        /\ ~HasLoserRef(bracketMatches[i])
        /\ ~HasLoserRef(bracketMatches[j])
        /\ bracketMatches[j].id \in isLBMatch
        /\ WinnerFedBy(bracketMatches[i], bracketMatches[j].id)
        /\ bracketMatches[i].id \in isLBMatch

RoundSizes(rounds) == [i \in DOMAIN rounds |-> Len(rounds[i].matches)]

\* C5: Scenario A: the 4-2-1 single elimination gives upper rounds of sizes
\* 4, 2 and 1, the last labelled "Final", no lower round, and the final is
\* not set apart as a grand final.
C5_ScenarioA ==
    (Parsed /\ bracketMatches = SingleElimination) =>
        /\ RoundSizes(bracket.upperBracket) = <<4, 2, 1>>
        /\ bracket.upperBracket[3].label = <<"Final">>
        /\ Len(bracket.lowerBracket) = 0
        /\ bracket.grandFinal = Null

\* What parseBracket returns on Scenario A: the final is the grand final and
\* the two rounds left are labelled "Semifinal" and "Final".
C5_Observed ==
    (Parsed /\ bracketMatches = SingleElimination) =>
        /\ RoundSizes(bracket.upperBracket) = <<4, 2>>
        /\ bracket.upperBracket[1].label = <<"Semifinal">>
        /\ bracket.upperBracket[2].label = <<"Final">>
        /\ Len(bracket.lowerBracket) = 0
        /\ bracket.grandFinal = SingleElimination[7]

MaxInputDepth == SetMax({DepthOf(depthCache, id) : id \in InputIds})

\* A match at the maximum depth with two or more references, of which one
\* predecessor is lower-bracket and one is not.
Converges(m) ==
    /\ DepthOf(depthCache, m.id) = MaxInputDepth
    /\ Len(m.previous_matches) >= 2
    /\ \E k \in DOMAIN m.previous_matches : m.previous_matches[k].match_id \in isLBMatch
    /\ \E k \in DOMAIN m.previous_matches : ~(m.previous_matches[k].match_id \in isLBMatch)

ConvergingAt == {i \in DOMAIN bracketMatches : Converges(bracketMatches[i])}

\* C6: when a match at the maximum depth joins a lower-bracket and a
\* non-lower-bracket predecessor, the grand final is the first such match of
\* the input, and no upper or lower round holds it.
C6_GrandFinalByConvergence ==
    (Parsed /\ ConvergingAt # {}) =>
        LET first == bracketMatches[CHOOSE i \in ConvergingAt : \A j \in ConvergingAt : i <= j]
        IN  /\ bracket.grandFinal = first
            /\ Count(RoundIds(bracket.upperBracket), first.id) = 0
            /\ Count(RoundIds(bracket.lowerBracket), first.id) = 0

\* C6 witness: two matches converge at the maximum depth and the earlier one
\* is the grand final.
C6_Witness ==
    /\ Parsed
    /\ Cardinality(ConvergingAt) >= 2
    /\ bracket.grandFinal # Null
    /\ \E i \in ConvergingAt :
        /\ bracket.grandFinal = bracketMatches[i]
        /\ \A j \in ConvergingAt : i <= j

\* C6 on Scenario B: match 6 is the grand final of the double elimination.
C6_ScenarioB ==
    (Parsed /\ bracketMatches = DoubleElimination) => bracket.grandFinal = DoubleElimination[6]

(***************************************************************************)
(* Properties of the stats normalizers and of the aggregator               *)
(***************************************************************************)
Normalized == stats \notin {Pending, Null, Thrown, Idle}

TeamRows(m) == SeqRange(m.team1Players) \cup SeqRange(m.team2Players)

OutputRows == UNION {TeamRows(stats.maps[i]) : i \in DOMAIN stats.maps}

Aggregated == overall \notin {Pending, Idle}

ZeroSafe(row) ==
    /\ row.kdDiff = Minus(row.kills, row.deaths)
    /\ Gt(row.deaths, Num(0)) => row.kdRatio = Over(row.kills, row.deaths)
    /\ row.deaths = Num(0) => row.kdRatio = row.kills

\* C7: every player row of every normalizer, and every row of the cross-map
\* aggregator, has kdDiff = kills - deaths, kdRatio = kills / deaths when
\* deaths > 0, and kdRatio = kills when deaths = 0.
C7_ZeroSafeKD ==
    /\ Normalized => \A row \in OutputRows : ZeroSafe(row)
    /\ Aggregated => \A k \in DOMAIN overall.rows : ZeroSafe(overall.rows[k])

\* An aggregated row summed over two maps with no death and some kills,
\* beside a normalized row with deaths.
C7_Witness ==
    /\ Normalized /\ Aggregated /\ Len(stats.maps) = 2
    /\ \E k \in DOMAIN overall.rows :
        /\ overall.rows[k].deaths = Num(0)
        /\ overall.rows[k].kills = Num(2)
        /\ overall.rows[k].kdRatio = Num(2)
        /\ \A row \in OutputRows : row.playerId = overall.rows[k].playerId => row.kills = Num(1)
    /\ \E row \in OutputRows : Gt(row.deaths, Num(0)) /\ row.kdRatio = Over(row.kills, row.deaths)

PSGamePlayed(g) == g.finished \/ g.status = "running"

GridGamePlayed(g) == g.finished \/ \E k \in DOMAIN g.teams : g.teams[k].score.n > 0

\* The payload has no map: FACEIT has no rounds; PandaScore has no games, no
\* player stats, or no finished or running game; Grid has no finished or
\* scored game.
NoMaps ==
    CASE source = "faceit" -> "rounds" \notin DOMAIN payload \/ Len(payload.rounds) = 0
      [] source = "pandascore" ->
            \/ Len(payload.games) = 0
            \/ Len(payload.playerStats) = 0
            \/ \A i \in DOMAIN payload.games : ~PSGamePlayed(payload.games[i])
      [] source = "grid" ->
            \/ "games" \notin DOMAIN payload
            \/ \A i \in DOMAIN payload.games : ~GridGamePlayed(payload.games[i])

\* C8: a normalizer returns null when the payload has no map, and every
\* non-null result has at least one map.
C8_NullWithoutMaps ==
    stats # Pending =>
        /\ NoMaps => stats = Null
        /\ Normalized => Len(stats.maps) >= 1

\* FACEIT answered null to a payload whose list of rounds is empty.
C8_Witness ==
    /\ source = "faceit" /\ stats = Null
    /\ "rounds" \in DOMAIN payload /\ Len(payload.rounds) = 0

\* PandaScore answered null to games none of which is finished or running.
C8_NoPlayedGame ==
    /\ source = "pandascore" /\ stats = Null
    /\ Len(payload.games) > 0 /\ Len(payload.playerStats) > 0

\* C9: in every non-null result, each key of availableColumns has a defined
\* value on every player row of the returned maps.
C9_ColumnsPopulated ==
    Normalized =>
        \A row \in OutputRows : \A i \in DOMAIN stats.availableColumns :
            row[stats.availableColumns[i]] # Undefined

\* C9 for one source at a time.
C9_Faceit == source = "faceit" => C9_ColumnsPopulated

C9_PandaScore == source = "pandascore" => C9_ColumnsPopulated

C9_Grid == source = "grid" => C9_ColumnsPopulated

FaceitRawPlayers ==
    UNION {UNION {SeqRange(payload.rounds[i].teams[t].players) :
                    t \in DOMAIN payload.rounds[i].teams} : i \in DOMAIN payload.rounds}

GridRawPlayers ==
    UNION {UNION {SeqRange(payload.games[i].teams[t].players) :
                    t \in DOMAIN payload.games[i].teams} : i \in DOMAIN payload.games}

\* What the payload says of each player: id, kills and headshots.
RawPlayers ==
    CASE source = "faceit" ->
            {[playerId |-> p.player_id,
              kills |-> parseNum(Get(p.player_stats, "Kills")),
              headshots |-> parseNum(Get(p.player_stats, "Headshots"))] : p \in FaceitRawPlayers}
      [] source = "pandascore" ->
            {[playerId |-> Str(DigitString(ps.player_id)),
              kills |-> ps.stats.kills,
              headshots |-> ps.stats.headshots] : ps \in SeqRange(payload.playerStats)}
      [] source = "grid" ->
            {[playerId |-> p.id, kills |-> p.kills, headshots |-> p.headshots] : p \in GridRawPlayers}

\* 100 * headshots / kills when kills > 0, else 0
Derived(headshots, kills) ==
    IF kills.n > 0 THEN Frac(100 * headshots.n * kills.d, headshots.d * kills.n) ELSE Num(0)

DerivedRow(row) ==
    \E p \in RawPlayers :
        /\ p.playerId = row.playerId /\ p.kills = row.kills
        /\ row.hsPercent = Derived(p.headshots, p.kills)

\* The upstream percentage as a number, undefined when absent or not numeric.
Upstream(value) ==
    IF value = Undefined THEN Undefined
    ELSE IF IsNumber(value) THEN value
    ELSE IF parseFloat(value) = NaN THEN Undefined ELSE parseFloat(value)

UpstreamRow(row) ==
    \E p \in FaceitRawPlayers :
        /\ p.player_id = row.playerId
        /\ parseNum(Get(p.player_stats, "Kills")) = row.kills
        /\ row.hsPercent = Upstream(Get(p.player_stats, "Headshots %"))

\* C10 as stated: each of the three normalizers derives the headshot
\* percentage as 100 * headshots / kills when kills > 0 and as 0 otherwise.
C10_AllDerive == Normalized => \A row \in OutputRows : DerivedRow(row)

\* C10: the PandaScore and Grid normalizers derive the headshot percentage
\* as 100 * headshots / kills when kills > 0 and as 0 when kills = 0; the
\* FACEIT normalizer takes the upstream "Headshots %" as a number, undefined
\* when it is absent or not numeric.
C10_DerivedOrUpstream ==
    Normalized =>
        \A row \in OutputRows :
            IF source = "faceit" THEN UpstreamRow(row) ELSE DerivedRow(row)

\* A PandaScore row with one headshot in two kills, at 50 percent.
C10_Witness ==
    /\ source = "pandascore" /\ Normalized
    /\ \E row \in OutputRows : row.kills = Num(2) /\ row.hsPercent = Num(50)
    /\ \E ps \in SeqRange(payload.playerStats) : ps.stats.headshots = Num(1) /\ ps.stats.kills = Num(2)

\* A FACEIT row without a kill whose percentage is the upstream 50.
C10_FaceitUpstream ==
    /\ source = "faceit" /\ Normalized
    /\ \E row \in OutputRows : row.kills = Num(0) /\ row.hsPercent = Num(50)

(***************************************************************************)
(* Properties of the depth computation                                     *)
(***************************************************************************)
\* Every previous-match reference points to a match of the list.
Closed == \A i \in DOMAIN bracketMatches : PredIds(bracketMatches, bracketMatches[i].id) \subseteq InputIds

RECURSIVE LongestChain(_, _)
\* The number of steps of the longest predecessor chain ending at match id,
\* followed for at most `fuel` steps.
LongestChain(id, fuel) ==
    IF fuel = 0 \/ PredIds(bracketMatches, id) = {} THEN 0
    ELSE 1 + SetMax({LongestChain(p, fuel - 1) : p \in PredIds(bracketMatches, id)})

\* C20: on an acyclic list whose references all point into the list, every
\* match has a depth; it is 0 for a match without previous matches, else one
\* more than the greatest depth of its previous matches, and so equals the
\* length of the longest predecessor chain ending at the match.
C20_DepthIsLongestChain ==
    (Parsed /\ Closed) =>
        \A id \in InputIds :
            /\ id \in DOMAIN depthCache
            /\ PredIds(bracketMatches, id) = {} => depthCache[id] = 0
            /\ PredIds(bracketMatches, id) # {} =>
                    depthCache[id] = 1 + SetMax({depthCache[p] : p \in PredIds(bracketMatches, id)})
            /\ depthCache[id] = LongestChain(id, Len(bracketMatches))

\* A match at depth 3 whose two previous matches are at depths 1 and 2,
\* listed before its predecessors.
C20_Witness ==
    /\ Parsed /\ Closed
    /\ \E i \in DOMAIN bracketMatches :
        /\ depthCache[bracketMatches[i].id] = 3
        /\ {depthCache[p] : p \in PredIds(bracketMatches, bracketMatches[i].id)} = {1, 2}
        /\ \E j \in DOMAIN bracketMatches :
                i < j /\ bracketMatches[j].id \in PredIds(bracketMatches, bracketMatches[i].id)

(***************************************************************************)
(* Properties of the FACEIT number parsing                                 *)
(***************************************************************************)
\* The raw value is a number or a string that begins with one.
ReadsAsNumber(value) == IsNumber(value) \/ (IsString(value) /\ parseFloat(value) # NaN)

NumberRead(value) == IF IsNumber(value) THEN value ELSE parseFloat(value)

\* A string that does not begin with a number.
Malformed(value) == IsString(value) /\ parseFloat(value) = NaN

FaceitCountKeys == {<<"kills", "Kills">>, <<"deaths", "Deaths">>, <<"assists", "Assists">>}

FaceitOptionalKeys ==
    {<<"hsPercent", "Headshots %">>, <<"krRatio", "K/R Ratio">>, <<"mvps", "MVPs">>,
     <<"tripleKills", "Triple Kills">>, <<"quadroKills", "Quadro Kills">>,
     <<"pentaKills", "Penta Kills">>}

FaceitHalfKeys ==
    {<<"team1FirstHalf", 1, "First Half Score">>, <<"team1SecondHalf", 1, "Second Half Score">>,
     <<"team2FirstHalf", 2, "First Half Score">>, <<"team2SecondHalf", 2, "Second Half Score">>,
     <<"team1Overtime", 1, "Overtime score">>, <<"team2Overtime", 2, "Overtime score">>}

FaceitScoreKeys == {<<"team1Score", 1>>, <<"team2Score", 2>>}

TeamField(t) == IF t = 1 THEN "team1Players" ELSE "team2Players"

\* The value of a team's key in round i of the payload, undefined without
\* the team or the key.
RawTeamStat(i, t, key) ==
    IF t <= Len(payload.rounds[i].teams) THEN Get(payload.rounds[i].teams[t].team_stats, key)
    ELSE Undefined

RawFinalScore(i, t) ==
    IF RawTeamStat(i, t, "Final Score") # Undefined THEN RawTeamStat(i, t, "Final Score")
    ELSE RawTeamStat(i, t, "FinalScore")

Reading(raw, out, optional) == [raw |-> raw, out |-> out, optional |-> optional]

\* Every raw value of a FACEIT player beside the field it became.
FaceitPlayerReadings ==
    UNION {UNION {UNION {
        {Reading(Get(payload.rounds[i].teams[t].players[k].player_stats, f[2]),
                 stats.maps[i][TeamField(t)][k][f[1]], FALSE) : f \in FaceitCountKeys}
        \cup {Reading(Get(payload.rounds[i].teams[t].players[k].player_stats, f[2]),
                      stats.maps[i][TeamField(t)][k][f[1]], TRUE) : f \in FaceitOptionalKeys} :
        k \in DOMAIN payload.rounds[i].teams[t].players} :
        t \in DOMAIN payload.rounds[i].teams \cap 1..2} :
        i \in DOMAIN payload.rounds}

\* Every raw score of a FACEIT team beside the field it became.
FaceitTeamReadings ==
    UNION {{Reading(RawFinalScore(i, f[2]), stats.maps[i][f[1]], FALSE) : f \in FaceitScoreKeys}
           \cup {Reading(RawTeamStat(i, f[2], f[3]), stats.maps[i][f[1]], TRUE) : f \in FaceitHalfKeys} :
           i \in DOMAIN payload.rounds}

FaceitReadings == FaceitPlayerReadings \cup FaceitTeamReadings

\* The numeric fields of the output, the derived ones included.
FaceitNumbers ==
    {r.out : r \in FaceitReadings}
    \cup UNION {{row.kdDiff, row.kdRatio} : row \in OutputRows}

C18_NumericPrefix ==
    /\ source = "faceit" /\ Normalized
    /\ \E r \in FaceitReadings : r.raw = Str(<<"7", "x">>) /\ r.out = Num(7)

(***************************************************************************)
(* Properties of the aggregator on its own                                 *)
(***************************************************************************)
\* The rows of the chosen team over all maps, in the order the loops visit
\* them, and those of one player.
VisitedRows == SeqConcat([i \in DOMAIN stats.maps |-> stats.maps[i][overall.teamKey]])

RowsOfPlayer(playerId) == SelectSeq(VisitedRows, LAMBDA row : row.playerId = playerId)

\* A missing count is worth 0.
CountOf(value) == IF value = Undefined THEN Num(0) ELSE value

RECURSIVE SumOfField(_, _)
SumOfField(rows, field) ==
    IF Len(rows) = 0 THEN Num(0)
    ELSE Plus(CountOf(Head(rows)[field]), SumOfField(Tail(rows), field))

SummedFields == {"kills", "deaths", "assists", "mvps", "tripleKills", "quadroKills", "pentaKills"}

\* C11: the aggregator returns one row per distinct playerId of the chosen
\* team's lists, and the row's kills, deaths, assists, MVPs and multi-kill
\* counts are the sums of the player's per-map values, a missing count
\* being worth 0.
C11_OneRowOfSums ==
    Aggregated =>
        /\ {overall.rows[k].playerId : k \in DOMAIN overall.rows}
                = {row.playerId : row \in SeqRange(VisitedRows)}
        /\ \A k, l \in DOMAIN overall.rows :
                overall.rows[k].playerId = overall.rows[l].playerId => k = l
        /\ \A k \in DOMAIN overall.rows : \A field \in SummedFields :
                CountOf(overall.rows[k][field])
                    = SumOfField(RowsOfPlayer(overall.rows[k].playerId), field)

\* A player of three maps, without MVPs on one of them, with 3 MVPs and 4
\* kills overall.
C11_Witness ==
    /\ Aggregated /\ Len(stats.maps) = 3 /\ Len(overall.rows) = 1
    /\ Len(RowsOfPlayer(PlayerOne)) = 3
    /\ \E row \in SeqRange(RowsOfPlayer(PlayerOne)) : row.mvps = Undefined
    /\ overall.rows[1].mvps = Num(3)
    /\ overall.rows[1].kills = Num(4)

\* Three identical maps give three times the per-map value.
C11_ThreeIdenticalMaps ==
    /\ Aggregated /\ Len(stats.maps) = 3
    /\ \A i \in DOMAIN stats.maps : stats.maps[i][overall.teamKey] = <<OverallFixedRow(PlayerOne)>>
    /\ overall.rows[1].kills = Num(6) /\ overall.rows[1].mvps = Num(3)

RECURSIVE WeightedHsSum(_)
\* The sum of kills * hsPercent over the rows.
WeightedHsSum(rows) ==
    IF Len(rows) = 0 THEN Num(0)
    ELSE Plus(Times(Head(rows).kills, Head(rows).hsPercent), WeightedHsSum(Tail(rows)))

HsOnEveryMap(playerId) ==
    \A row \in SeqRange(RowsOfPlayer(playerId)) : row.hsPercent # Undefined

\* C12: for a player with hsPercent on each of their maps and total kills
\* above 0, the aggregated hsPercent is sum(kills_i * hs_i) / sum(kills_i).
C12_WeightedHs ==
    Aggregated =>
        \A k \in DOMAIN overall.rows :
            LET rows == RowsOfPlayer(overall.rows[k].playerId)
            IN  (HsOnEveryMap(overall.rows[k].playerId) /\ Gt(SumOfField(rows, "kills"), Num(0)))
                    => overall.rows[k].hsPercent
                            = Over(WeightedHsSum(rows), SumOfField(rows, "kills"))

\* Three maps, one of them with 1 kill at 100 percent and one with 3 kills
\* at 0 percent: the aggregated percentage is neither per-map value.
C12_Witness ==
    /\ Aggregated /\ Len(RowsOfPlayer(PlayerOne)) = 3 /\ HsOnEveryMap(PlayerOne)
    /\ \E row \in SeqRange(RowsOfPlayer(PlayerOne)) : row.kills = Num(1) /\ row.hsPercent = Num(100)
    /\ \E row \in SeqRange(RowsOfPlayer(PlayerOne)) : row.kills = Num(3) /\ row.hsPercent = Num(0)
    /\ Len(overall.rows) = 1
    /\ overall.rows[1].hsPercent \notin {Num(0), Num(50), Num(100)}

AveragedFields == {"krRatio", "adr", "kast", "rating"}

DefinedOnEveryMap(playerId, field) ==
    \A row \in SeqRange(RowsOfPlayer(playerId)) : row[field] # Undefined

\* C13: for a player with the metric defined on each of N maps, the
\* aggregated K/R ratio, ADR, KAST and rating are the arithmetic mean of
\* the N per-map values.
C13_ArithmeticMean ==
    Aggregated =>
        \A k \in DOMAIN overall.rows : \A field \in AveragedFields :
            LET rows == RowsOfPlayer(overall.rows[k].playerId)
            IN  DefinedOnEveryMap(overall.rows[k].playerId, field)
                    => overall.rows[k][field] = Over(SumOfField(rows, field), Num(Len(rows)))

\* C13 for at most two maps of the player.
C13_MeanOfTwo ==
    Aggregated =>
        \A k \in DOMAIN overall.rows : \A field \in AveragedFields :
            LET rows == RowsOfPlayer(overall.rows[k].playerId)
            IN  (DefinedOnEveryMap(overall.rows[k].playerId, field) /\ Len(rows) <= 2)
                    => overall.rows[k][field] = Over(SumOfField(rows, field), Num(Len(rows)))

\* What the code computes over three maps: the last map weighs a half, the
\* first two a quarter each.
C13_Observed ==
    Aggregated =>
        \A k \in DOMAIN overall.rows : \A field \in AveragedFields :
            LET rows == RowsOfPlayer(overall.rows[k].playerId)
            IN  (DefinedOnEveryMap(overall.rows[k].playerId, field) /\ Len(rows) = 3)
                    => overall.rows[k][field]
                            = Over(Plus(Plus(rows[1][field], rows[2][field]),
                                        Times(Num(2), rows[3][field])), Num(4))

\* C19: aggregatePlayerStats leaves the maps it is given unchanged, and a
\* second call on the same maps returns the rows of the first.
C19_InputUntouched ==
    /\ [][stats' = stats]_vars
    /\ []((Aggregated /\ overall.again # Pending) => overall.again.rows = overall.rows)

\* Two calls on three maps of one player, whose row sums three maps.
C19_Witness ==
    /\ Aggregated /\ overall.again # Pending
    /\ Len(stats.maps) = 3 /\ Len(RowsOfPlayer(PlayerOne)) = 3
    /\ Len(overall.rows) = 1
    /\ overall.rows[1].kills = Num(6)
    /\ \A row \in SeqRange(RowsOfPlayer(PlayerOne)) : row.kills = Num(2)

(***************************************************************************)
(* Properties of groupBySerie                                              *)
(***************************************************************************)
Grouped == events \notin {Pending, Idle}

Emitted == SeqRange(events.returned)

Inputs == SeqRange(tournaments)

HasSerie(t) == t.serie # Null

\* The members of an event, from the event's own id: the tournament of that
\* id, or the tournaments of that serie.
MembersOf(event) ==
    IF event.id.prefix = "ps-"
    THEN {t \in Inputs : t.id = event.id.of.id}
    ELSE {t \in Inputs : HasSerie(t) /\ [id |-> t.serie.id] = event.id.of}

IsSeriesEvent(event) == event.tournamentCount # Undefined

\* C14: every emitted event is ongoing if any member is ongoing, else
\* upcoming if any member is upcoming, else completed.
C14_StatusAggregation ==
    Grouped =>
        \A event \in Emitted :
            event.status =
                IF \E t \in MembersOf(event) : t._status = "ongoing" THEN "ongoing"
                ELSE IF \E t \in MembersOf(event) : t._status = "upcoming" THEN "upcoming"
                ELSE "completed"

\* A series of three stages, one ongoing and two completed, emitted ongoing.
C14_Witness ==
    /\ Grouped /\ Len(tournaments) = 3 /\ Len(events.returned) = 1
    /\ tournaments[1]._status = "completed" /\ tournaments[2]._status = "completed"
    /\ tournaments[3]._status = "ongoing"
    /\ events.returned[1].status = "ongoing"

\* A series of three completed stages, emitted completed.
C14_AllCompleted ==
    /\ Grouped /\ Len(tournaments) = 3 /\ Len(events.returned) = 1
    /\ \A i \in 1..3 : tournaments[i]._status = "completed"
    /\ events.returned[1].status = "completed"

TierLetters == <<"S", "A", "B", "C", "D">>

\* The place of a tier in S, A, B, C, D whatever its case; an unranked
\* tier comes after them all.
TierPlace(tier) ==
    IF tier # Null /\ Len(tier.str) = 1
          /\ \E i \in DOMAIN TierLetters : toUpperCase(tier.str[1]) = TierLetters[i]
    THEN CHOOSE i \in DOMAIN TierLetters : toUpperCase(tier.str[1]) = TierLetters[i]
    ELSE Len(TierLetters) + 1

BestPlace(members) == CHOOSE place \in {TierPlace(t.tier) : t \in members} :
                          \A t \in members : place <= TierPlace(t.tier)

\* C15: the tier of a series event is the best tier of its members, S
\* before A before B before C before D before any unranked tier, whatever
\* the case of the letters and the order of the members.
C15_BestTier ==
    Grouped =>
        \A event \in Emitted :
            IsSeriesEvent(event) =>
                /\ TierPlace(event.tier) = BestPlace(MembersOf(event))
                /\ BestPlace(MembersOf(event)) <= Len(TierLetters)
                        => event.tier = Str(<<TierLetters[BestPlace(MembersOf(event))]>>)

\* A series whose best tier is neither the first nor the last member's.
C15_Witness ==
    /\ Grouped /\ Len(tournaments) = 3 /\ Len(events.returned) = 1
    /\ tournaments[1].tier = Str(<<"B">>) /\ tournaments[2].tier = Str(<<"s">>)
    /\ tournaments[3].tier = Str(<<"a">>)
    /\ events.returned[1].tier = Str(<<"S">>)

\* The grouping key: the serie id when there is one, else the tournament id.
KeyOf(t) == IF HasSerie(t) THEN [serie |-> t.serie.id] ELSE [tournament |-> t.id]

EventsOf(t) == {g \in DOMAIN events.returned : t \in MembersOf(events.returned[g])}

RECURSIVE CountedIn(_)
\* The number of tournaments the events stand for.
CountedIn(list) ==
    IF Len(list) = 0 THEN 0
    ELSE (IF IsSeriesEvent(Head(list)) THEN Head(list).tournamentCount.count ELSE 1)
            + CountedIn(Tail(list))

\* C16: two tournaments are in the same event exactly when they have the
\* same key; a tournament without serie is an event of its own; there are
\* as many events as keys; every tournament is counted in one event.
C16_PartitionByKey ==
    Grouped =>
        /\ \A t \in Inputs : Cardinality(EventsOf(t)) = 1
        /\ \A t, u \in Inputs : (EventsOf(t) = EventsOf(u)) <=> (KeyOf(t) = KeyOf(u))
        /\ \A t \in Inputs : ~HasSerie(t) =>
                \A g \in EventsOf(t) : /\ MembersOf(events.returned[g]) = {t}
                                       /\ ~IsSeriesEvent(events.returned[g])
        /\ Len(events.returned) = Cardinality({KeyOf(t) : t \in Inputs})
        /\ \A event \in Emitted :
                IsSeriesEvent(event) => event.tournamentCount.count = Cardinality(MembersOf(event))
        /\ CountedIn(events.returned) = Len(tournaments)

\* Two stages of one serie around a tournament without serie: two events.
C16_Witness ==
    /\ Grouped /\ Len(tournaments) = 3 /\ Len(events.returned) = 2
    /\ HasSerie(tournaments[1]) /\ ~HasSerie(tournaments[2]) /\ HasSerie(tournaments[3])
    /\ tournaments[1].serie = tournaments[3].serie
    /\ IsSeriesEvent(events.returned[1]) /\ ~IsSeriesEvent(events.returned[2])

\* The dates of the members, as the numbers their digits spell.
BeginTimes(members) == {DigitsValue(t.begin_at.str) : t \in {m \in members : m.begin_at # Null}}

EndTimes(members) == {DigitsValue(t.end_at.str) : t \in {m \in members : m.end_at # Null}}

SetMin(S) == CHOOSE x \in S : \A y \in S : x <= y

\* C17: a series event starts at the earliest begin_at of its members and
\* ends at the latest end_at, each on its own; the start is empty without
\* any begin_at and the end is null without any end_at.
C17_DateRange ==
    Grouped =>
        \A event \in Emitted :
            IsSeriesEvent(event) =>
                /\ IF BeginTimes(MembersOf(event)) = {} THEN event.startDate = Str(<<>>)
                   ELSE /\ event.startDate # Str(<<>>)
                        /\ DigitsValue(event.startDate.str) = SetMin(BeginTimes(MembersOf(event)))
                /\ IF EndTimes(MembersOf(event)) = {} THEN event.endDate = Null
                   ELSE /\ event.endDate # Null
                        /\ DigitsValue(event.endDate.str) = SetMax(EndTimes(MembersOf(event)))

\* The start comes from the second member and the end from the third, and
\* the first member has no dates.
C17_Witness ==
    /\ Grouped /\ Len(tournaments) = 3 /\ Len(events.returned) = 1
    /\ tournaments[1].begin_at = Null /\ tournaments[1].end_at = Null
    /\ tournaments[2].begin_at = Date(<<"0", "9">>) /\ tournaments[2].end_at = Date(<<"1", "1">>)
    /\ tournaments[3].begin_at = Date(<<"1", "0">>) /\ tournaments[3].end_at = Date(<<"1", "2">>)
    /\ events.returned[1].startDate = Date(<<"0", "9">>)
    /\ events.returned[1].endDate = Date(<<"1", "2">>)

(***************************************************************************)
(* Properties of the lower-bracket classification                          *)
(***************************************************************************)
\* One round of the two rules over the input: the matches with a loser
\* reference, and those with a winner reference to a match of S.
ClosureStep(S) ==
    S \cup {bracketMatches[i].id : i \in {j \in DOMAIN bracketMatches :
                \/ HasLoserRef(bracketMatches[j])
                \/ \E a \in S : WinnerFedBy(bracketMatches[j], a)}}

RECURSIVE LeastClosed(_)
\* The least set closed under the two rules.
LeastClosed(S) == IF ClosureStep(S) = S THEN S ELSE LeastClosed(ClosureStep(S))

\* isLBMatch after the loop over sortedByDepth is run once more.
SecondPass == classifyAll(bracketMatches, isLBMatch, sortedByDepth(bracketMatches, depthCache))

\* C21: after the one pass in ascending depth order the lower-bracket set is
\* the least set closed under the two rules, and a second pass adds nothing.
C21_SinglePassConvergence ==
    Parsed =>
        /\ isLBMatch = LeastClosed({})
        /\ SecondPass = isLBMatch

\* A chain of two winner references below a loser-fed match, listed latest
\* round first: the classification has to travel two steps against the
\* order of the list.
C21_Witness ==
    /\ Parsed
    /\ \E i, j, k \in DOMAIN bracketMatches :
        /\ i < j /\ j < k
        /\ HasLoserRef(bracketMatches[k])
        /\ ~HasLoserRef(bracketMatches[j]) /\ WinnerFedBy(bracketMatches[j], bracketMatches[k].id)
        /\ ~HasLoserRef(bracketMatches[i]) /\ WinnerFedBy(bracketMatches[i], bracketMatches[j].id)
        /\ bracketMatches[i].id \in isLBMatch

(***************************************************************************)
(* Properties of the grand-final fallback                                  *)
(***************************************************************************)
\* The positions of the matches at the maximum depth.
MaxDepthAt == {i \in DOMAIN bracketMatches : DepthOf(depthCache, bracketMatches[i].id) = MaxInputDepth}

\* C22: without a convergence at the maximum depth the grand final is the
\* match at the maximum depth when exactly one match has that depth and null
\* when several share it; a grand final is always a match at the maximum
\* depth.
C22_GrandFinalFallback ==
    Parsed =>
        /\ (ConvergingAt = {} /\ Cardinality(MaxDepthAt) = 1) =>
                \A i \in MaxDepthAt : bracket.grandFinal = bracketMatches[i]
        /\ (ConvergingAt = {} /\ Cardinality(MaxDepthAt) >= 2) => bracket.grandFinal = Null
        /\ bracket.grandFinal # Null => \E i \in MaxDepthAt : bracket.grandFinal = bracketMatches[i]

\* Two matches share a maximum depth above 0, neither converges, and there
\* is no grand final.
C22_Witness ==
    /\ Parsed
    /\ ConvergingAt = {} /\ Cardinality(MaxDepthAt) >= 2 /\ MaxInputDepth >= 1
    /\ bracket.grandFinal = Null

\* The sole match at a maximum depth above 0 is the grand final by default.
C22_SoleFinal ==
    /\ Parsed
    /\ ConvergingAt = {} /\ Cardinality(MaxDepthAt) = 1 /\ MaxInputDepth >= 1
    /\ Len(bracketMatches) >= 3
    /\ bracket.grandFinal # Null

(***************************************************************************)
(* Properties of the round labels                                          *)
(***************************************************************************)
\* C23: with k >= 1 lower rounds the last is labelled "LB Final" and the
\* round at position n < k "LB Round n".
C23_LowerLabels ==
    Parsed =>
        LET k == Len(bracket.lowerBracket)
        IN  \A n \in 1..k :
                bracket.lowerBracket[n].label =
                    (IF n = k THEN <<"LB ", "Final">> ELSE <<"LB ", "Round ", n>>)

\* Three lower rounds: "LB Round 1", "LB Round 2", "LB Final".
C23_Witness ==
    /\ Parsed
    /\ Len(bracket.lowerBracket) = 3
    /\ bracket.lowerBracket[2].label = <<"LB ", "Round ", 2>>
    /\ bracket.lowerBracket[3].label = <<"LB ", "Final">>

\* The label an upper round has before the prefix is looked at.
UpperName(n, k, size) ==
    IF k = 1 THEN <<"Final">>
    ELSE IF n = k THEN <<"Final">>
    ELSE IF n = k - 1 THEN <<"Semifinal">>
    ELSE IF n = k - 2 /\ size = 4 THEN <<"Quarterfinal">>
    ELSE <<"Round ", n>>

\* C24: a sole upper round is "Final"; of two or more the last is "UB Final",
\* the one before "UB Semifinal", the third from last "UB Quarterfinal" only
\* with exactly 4 matches, every other "UB Round n"; the "UB " prefix is
\* there exactly when the lower bracket has rounds.
C24_UpperLabels ==
    Parsed =>
        LET k == Len(bracket.upperBracket)
            prefix == IF k >= 2 /\ Len(bracket.lowerBracket) > 0 THEN <<"UB ">> ELSE <<>>
        IN  \A n \in 1..k :
                bracket.upperBracket[n].label =
                    prefix \o UpperName(n, k, Len(bracket.upperBracket[n].matches))

\* Three upper rounds beside a lower bracket, the first of 4 matches.
C24_Witness ==
    /\ Parsed
    /\ Len(bracket.lowerBracket) > 0
    /\ Len(bracket.upperBracket) = 3
    /\ bracket.upperBracket[1].label = <<"UB ", "Quarterfinal">>
    /\ bracket.upperBracket[3].label = <<"UB ", "Final">>

\* Four upper rounds and no lower round: the third from last holds one match
\* and is "Round 2".
C24_IrregularStripped ==
    /\ Parsed
    /\ Len(bracket.lowerBracket) = 0
    /\ Len(bracket.upperBracket) = 4
    /\ bracket.upperBracket[2].label = <<"Round ", 2>>
    /\ bracket.upperBracket[3].label = <<"Semifinal">>

(***************************************************************************)
(* Properties of brackets without references                               *)
(***************************************************************************)
\* No match of the input lists a previous match.
Unreferenced == \A i \in DOMAIN bracketMatches : Len(bracketMatches[i].previous_matches) = 0

\* Every match of the input is in one upper round labelled "Final", and
\* there is no lower round.
AllInOneFinal ==
    /\ Len(bracket.upperBracket) = 1
    /\ bracket.upperBracket[1].label = <<"Final">>
    /\ bracket.upperBracket[1].matches = bracketMatches
    /\ Len(bracket.lowerBracket) = 0

\* C25: a non-empty input without references is parsed into one upper round
\* labelled "Final" that holds every match, and an empty lower bracket,
\* whatever the size of the input.
C25_AllUpperFinal == (Parsed /\ Unreferenced) => AllInOneFinal

\* C25 for inputs of two or more matches.
C25_TwoOrMore == (Parsed /\ Unreferenced /\ Len(bracketMatches) >= 2) => AllInOneFinal /\ bracket.grandFinal = Null

\* What parseBracket returns for one match without references: the match is
\* the grand final and there is no round at all.
C25_Observed ==
    (Parsed /\ Unreferenced /\ Len(bracketMatches) = 1) =>
        /\ Len(bracket.upperBracket) = 0
        /\ Len(bracket.lowerBracket) = 0
        /\ bracket.grandFinal = bracketMatches[1]

\* Three matches without references in one round "Final".
C25_ThreeInFinal == Parsed /\ Unreferenced /\ Len(bracketMatches) = 3 /\ AllInOneFinal

(***************************************************************************)
(* Properties of references to missing matches                             *)
(***************************************************************************)
\* The match lists previous matches and none of them is in the input.
OnlyDangling(m) ==
    /\ Len(m.previous_matches) > 0
    /\ \A k \in DOMAIN m.previous_matches : m.previous_matches[k].match_id \notin InputIds

\* Some reference names an id that is not in the input.
HasDangling == \E i \in DOMAIN bracketMatches : ~(PredIds(bracketMatches, bracketMatches[i].id) \subseteq InputIds)

\* The depths of the previous matches of m that are in the input.
ListedPrevDepths(m) ==
    {DepthOf(depthCache, p) : p \in PredIds(bracketMatches, m.id) \cap InputIds}

\* C26 as stated: with a reference to a missing id the call returns a result
\* that places every match once, and the missing match does not count in the
\* depth: a match is one deeper than its deepest listed previous match, and
\* at depth 0 when none of its previous matches is listed.
C26_DanglingLeftOut ==
    (bracket # Pending /\ HasDangling) =>
        /\ Parsed
        /\ \A id \in InputIds : Count(PlacedIds, id) = 1
        /\ Len(PlacedIds) = Len(bracketMatches)
        /\ \A i \in DOMAIN bracketMatches :
            DepthOf(depthCache, bracketMatches[i].id) =
                (IF ListedPrevDepths(bracketMatches[i]) = {} THEN 0
                 ELSE 1 + SetMax(ListedPrevDepths(bracketMatches[i])))

\* What parseBracket does: the call returns and places every match once, and
\* the missing match counts as a match of depth 0, so that a match with
\* previous matches is at depth 1 or deeper, listed or not.
C26_DanglingCountsAsRoot ==
    (bracket # Pending /\ HasDangling) =>
        /\ Parsed
        /\ \A id \in InputIds : Count(PlacedIds, id) = 1
        /\ Len(PlacedIds) = Len(bracketMatches)
        /\ \A id \in DOMAIN depthCache \ InputIds : depthCache[id] = 0
        /\ \A i \in DOMAIN bracketMatches :
            LET m == bracketMatches[i]
            IN  Len(m.previous_matches) > 0 =>
                    DepthOf(depthCache, m.id) =
                        1 + SetMax({DepthOf(depthCache, p) : p \in PredIds(bracketMatches, m.id)})

\* A match whose only reference is to a missing id, at depth 1, beside a
\* match without references at depth 0.
C26_Observed ==
    /\ Parsed
    /\ \E i, j \in DOMAIN bracketMatches :
        /\ OnlyDangling(bracketMatches[i]) /\ DepthOf(depthCache, bracketMatches[i].id) = 1
        /\ Len(bracketMatches[j].previous_matches) = 0

(***************************************************************************)
(* Properties of the round structure                                       *)
(***************************************************************************)
\* The depth of each round: that of its first match.
RoundDepths(rounds) == [i \in DOMAIN rounds |-> DepthOf(depthCache, rounds[i].matches[1].id)]

\* Non-empty rounds of one depth each, on the given side, deeper and deeper.
WellFormedRounds(rounds, lower) ==
    /\ \A i \in DOMAIN rounds :
        /\ Len(rounds[i].matches) > 0
        /\ \A k \in DOMAIN rounds[i].matches :
            /\ DepthOf(depthCache, rounds[i].matches[k].id) = DepthOf(depthCache, rounds[i].matches[1].id)
            /\ (rounds[i].matches[k].id \in isLBMatch) = lower
    /\ \A i, j \in DOMAIN rounds : i < j => RoundDepths(rounds)[i] < RoundDepths(rounds)[j]

\* C27: every round is non-empty, its matches share one depth and one side,
\* and the upper rounds and the lower rounds are each in strictly ascending
\* order of depth.
C27_RoundStructure ==
    Parsed =>
        /\ WellFormedRounds(bracket.upperBracket, FALSE)
        /\ WellFormedRounds(bracket.lowerBracket, TRUE)

\* Two upper rounds and two lower rounds from a list given latest round
\* first, with two matches in one round.
C27_Witness ==
    /\ Parsed
    /\ Len(bracket.upperBracket) >= 2 /\ Len(bracket.lowerBracket) >= 2
    /\ \E i \in DOMAIN bracket.upperBracket : Len(bracket.upperBracket[i].matches) >= 2
    /\ DepthOf(depthCache, bracketMatches[1].id) = MaxInputDepth

(***************************************************************************)
(* Properties of the order of the input                                    *)
(***************************************************************************)
\* Other orders of the input: every one for a list of up to MaxMatches
\* matches, the reversed one for a longer list.
Orderings ==
    IF Len(bracketMatches) <= MaxMatches
    THEN {[i \in DOMAIN bracketMatches |-> bracketMatches[p[i]]] : p \in Permutations(DOMAIN bracketMatches)}
    ELSE {bracketMatches, Reverse(bracketMatches)}

RoundSets(rounds) ==
    [i \in DOMAIN rounds |->
        [label |-> rounds[i].label, ids |-> {rounds[i].matches[k].id : k \in DOMAIN rounds[i].matches}]]

\* The same grand final and, round by round, the same labels and ids.
SameBracket(a, b) ==
    /\ a.grandFinal = b.grandFinal
    /\ RoundSets(a.upperBracket) = RoundSets(b.upperBracket)
    /\ RoundSets(a.lowerBracket) = RoundSets(b.lowerBracket)

\* C30: every order of the same matches gives the same grand final and the
\* same rounds, as sets of ids with their labels.
C30_OrderIndependent ==
    Parsed => \A ms \in Orderings : SameBracket(parseBracket(ms), bracket)

\* What does not depend on the order: the depths and the lower-bracket set,
\* and the whole result when at most one match converges at the maximum
\* depth.
C30_Observed ==
    Parsed =>
        \A ms \in Orderings :
            /\ computeDepths(ms) = depthCache
            /\ classify(ms, computeDepths(ms)) = isLBMatch
            /\ Cardinality(ConvergingAt) <= 1 => SameBracket(parseBracket(ms), bracket)

\* Two matches converge at the maximum depth: the first of the list is the
\* grand final, the other a lower-bracket match, and the reversed list gives
\* the other of the two as grand final.
C30_TwinFinals ==
    /\ Parsed
    /\ Cardinality(ConvergingAt) = 2
    /\ parseBracket(Reverse(bracketMatches)).grandFinal # bracket.grandFinal

(***************************************************************************)
(* Properties of the status derived from timestamps                        *)
(***************************************************************************)
Begun == timing.begin_at # Null /\ timing.now >= getTime(timing.begin_at)

NotYetBegun == timing.begin_at # Null /\ timing.now < getTime(timing.begin_at)

Ended == timing.end_at # Null /\ timing.now > getTime(timing.end_at)

\* upcoming before the begin, ongoing from the begin until the end, and the
\* given word in every other case.
StatusRule(otherwise) ==
    IF NotYetBegun THEN "upcoming"
    ELSE IF Begun /\ ~Ended THEN "ongoing"
    ELSE otherwise

\* C29: in the series route and in the standing lookup the status is
\* upcoming before the begin, ongoing once begun and not ended, and
\* completed (finished) in every other case, an unknown begin included.
C29_StatusRule ==
    /\ derived.series # Pending => derived.series.is = StatusRule("completed")
    /\ (derived.standing # Pending /\ timing.ok) => derived.standing.is = StatusRule("finished")

\* The series route follows the rule.
C29_SeriesRoute == derived.series # Pending => derived.series.is = StatusRule("completed")

\* What the standing lookup does: it follows the rule when the begin is
\* known, and without a begin it says ongoing until the end has passed.
C29_Observed ==
    (derived.standing # Pending /\ timing.ok) =>
        derived.standing.is =
            (IF timing.begin_at # Null THEN StatusRule("finished")
             ELSE IF Ended THEN "finished" ELSE "ongoing")

\* The two places disagree on a tournament without begin and without end.
C29_Disagree ==
    /\ timing.begin_at = Null /\ timing.end_at = Null /\ timing.ok
    /\ derived.series # Pending /\ derived.standing # Pending
    /\ derived.series.is = "completed" /\ derived.standing.is = "ongoing"

(***************************************************************************)
(* Properties of the termination of getDepth                               *)
(***************************************************************************)
Returned == bracket \notin {Pending, RangeError}

\* Some id is on the call stack twice: the call of that id is made again
\* while it is still in progress.
Reentered ==
    \E i, j \in DOMAIN depthCalls.stack : i < j /\ depthCalls.stack[i].id = depthCalls.stack[j].id

\* C28: on an acyclic list parseBracket returns; on a list with a cycle it
\* never returns: the recursion re-enters a call in progress and goes on
\* until the call stack is exhausted.
C28_Termination ==
    /\ (Acyclic(bracketMatches) ~> Returned)
    /\ [](~Acyclic(bracketMatches) => ~Returned)
    /\ (~Acyclic(bracketMatches) ~> (Reentered /\ bracket = RangeError))
    /\ [](Acyclic(bracketMatches) => ~Reentered /\ bracket # RangeError)

\* The call-by-call loop gives what the recursive definition gives.
DepthStepsAgree ==
    (Returned /\ bracket # Null) =>
        /\ depthCache = computeDepths(bracketMatches)
        /\ bracket = parseBracket(bracketMatches)

\* A list of three matches in a cycle: the first id is called a second time
\* below itself and the call ends in a RangeError.
C28_Witness ==
    /\ ~Acyclic(bracketMatches) /\ Len(bracketMatches) = 3
    /\ Reentered /\ bracket = RangeError
    /\ \A id \in InputIds : id \notin DOMAIN depthCache

\* A match that lists itself never gets a depth.
C28_SelfReference ==
    bracketMatches = SelfReference /\ Reentered /\ bracket = RangeError /\ depthCache = <<>>

\* The double elimination, latest round first, returned through the
\* call-by-call loop.
C28_Returned ==
    /\ bracketMatches = Reverse(DoubleElimination) /\ Returned
    /\ bracket.grandFinal # Null

====
